---- MODULE Spec2Model ----
(***************************************************************************)
(* A model of the request-signing and authenticated-request layer of       *)
(* opti-astro (utils/optimizely-hmac.ts, utils/optimizely-graph-utils.ts   *)
(* and the admin API routes built on them).                                *)
(*                                                                         *)
(* Strings are sequences of one-character strings, so that the character   *)
(* level operations of the code (concatenation without separators, base64  *)
(* decoding, hex encoding, URL serialisation) are computed and not         *)
(* assumed.  The digests (MD5, HMAC-SHA256) are uninterpreted and          *)
(* injective: a digest is the printed form of its arguments, carried as    *)
(* one opaque element of the string that contains it.                      *)
(***************************************************************************)
EXTENDS Integers, Sequences, FiniteSets, TLC

VARIABLES
  now,        \* the wall clock read by Date.now()
  hmacCalls,  \* the invocations of createHmacAuthHeader: inputs and result
  request,    \* one invocation of makeOptimizelyGraphRequest and its fetch
  invocations, \* concurrent invocations of makeOptimizelyGraphRequest
  fetchLog,   \* the calls of fetch made by the concurrent invocations, in order
  env,        \* import.meta.env as the helpers and the routes read it
  running,    \* the one call of a helper or a route, and how far it has got
  conversion, \* a locale and what the locale helpers have made of it
  chain,      \* the locales visited by following the i18n fallback
  admin,      \* a request to the middleware's admin check and its answer
  stream,     \* one push-style event stream: its controller, listeners, run
  push,       \* one run of pushAllContentTypes or pushAllStyles
  cache,      \* placeholderCache, its eviction timers and the requests using it
  sync,       \* the CMS sync component: its flags and its EventSource
  pinned      \* the pinned-results component: selection, items, loads in flight

\* The variables of the Graph client and the locale helpers, and those of the
\* middleware, the stream route and the admin components.
graphVars ==
  <<now, hmacCalls, request, invocations, fetchLog, env, running, conversion, chain>>
siteVars == <<admin, stream, push, cache, sync, pinned>>

vars == <<graphVars, siteVars>>

\* The value of a variable in a specification that does not use it.
Unused == [state |-> "unused"]

SiteUnused ==
  /\ admin = Unused
  /\ stream = Unused
  /\ push = Unused
  /\ cache = Unused
  /\ sync = Unused
  /\ pinned = Unused

-----------------------------------------------------------------------------
(* Bounds of the model *)

\* The clock value at the start of a behaviour (9 -> 10 changes the number
\* of decimal digits of the timestamp).
EpochStart == 9
\* How many times the clock advances in a behaviour.
MaxTicks == 1
\* How many invocations of makeOptimizelyGraphRequest run concurrently.
MaxCalls == 2

-----------------------------------------------------------------------------
(* JavaScript values *)

\* The value of an omitted argument or option.
undefined == <<"(undefined)">>

Base64Alphabet ==
  <<"A", "B", "C", "D", "E", "F", "G", "H", "I", "J", "K", "L", "M", "N", "O", "P",
    "Q", "R", "S", "T", "U", "V", "W", "X", "Y", "Z", "a", "b", "c", "d", "e", "f",
    "g", "h", "i", "j", "k", "l", "m", "n", "o", "p", "q", "r", "s", "t", "u", "v",
    "w", "x", "y", "z", "0", "1", "2", "3", "4", "5", "6", "7", "8", "9", "+", "/">>

LowerCaseLetters ==
  <<"a", "b", "c", "d", "e", "f", "g", "h", "i", "j", "k", "l", "m",
    "n", "o", "p", "q", "r", "s", "t", "u", "v", "w", "x", "y", "z">>

UpperCaseLetters ==
  <<"A", "B", "C", "D", "E", "F", "G", "H", "I", "J", "K", "L", "M",
    "N", "O", "P", "Q", "R", "S", "T", "U", "V", "W", "X", "Y", "Z">>

HexDigits ==
  <<"0", "1", "2", "3", "4", "5", "6", "7", "8", "9", "a", "b", "c", "d", "e", "f">>

DecimalDigits == <<"0", "1", "2", "3", "4", "5", "6", "7", "8", "9">>

\* The elements of a sequence, as a set.
Range(s) == {s[i] : i \in 1..Len(s)}

RECURSIVE ToDecimal(_)
\* `${timestamp}`: a non-negative integer as its decimal digits.
ToDecimal(n) ==
  IF n < 10 THEN <<DecimalDigits[n + 1]>>
  ELSE ToDecimal(n \div 10) \o <<DecimalDigits[(n % 10) + 1]>>

RECURSIVE HexEncode(_)
\* Buffer.toString('hex'): two lowercase hex digits per byte.
HexEncode(bytes) ==
  IF bytes = <<>> THEN <<>>
  ELSE <<HexDigits[(Head(bytes) \div 16) + 1], HexDigits[(Head(bytes) % 16) + 1]>>
       \o HexEncode(Tail(bytes))

\* String.prototype.toUpperCase on one character.
UpperChar(c) ==
  IF \E i \in 1..26 : LowerCaseLetters[i] = c
  THEN UpperCaseLetters[CHOOSE i \in 1..26 : LowerCaseLetters[i] = c]
  ELSE c

\* String.prototype.toUpperCase.
ToUpperCase(s) == [i \in 1..Len(s) |-> UpperChar(s[i])]

\* String.prototype.toLowerCase on one character.
LowerChar(c) ==
  IF \E i \in 1..26 : UpperCaseLetters[i] = c
  THEN LowerCaseLetters[CHOOSE i \in 1..26 : UpperCaseLetters[i] = c]
  ELSE c

\* String.prototype.toLowerCase.
ToLowerCase(s) == [i \in 1..Len(s) |-> LowerChar(s[i])]

-----------------------------------------------------------------------------
(* crypto: digests and encodings *)

\* The number of random bytes of a nonce.
NonceBytes == 16

\* randomBytes(16): the byte strings the random source may deliver.
RandomDraws ==
  { [i \in 1..NonceBytes |-> (i * 17) % 256],
    [i \in 1..NonceBytes |-> 255 - i] }

\* createHash('md5').update(body, 'utf8'): uninterpreted, injective.
Md5(data) == <<"MD5", data>>

\* createHmac('sha256', key).update(data, 'utf8'): uninterpreted, injective.
HmacSha256(key, data) == <<"HMAC-SHA256", key, data>>

\* digest('base64') of an uninterpreted digest: one opaque element.
DigestBase64(digest) == <<ToString(<<"base64", digest>>)>>

\* The value (0..63) of each character Node's base64 decoder reads: the
\* alphabet, and the URL-safe characters '-' and '_' as 62 and 63.
Base64Values ==
  [c \in Range(Base64Alphabet) \cup {"-", "_"} |->
     IF c = "-" THEN 62
     ELSE IF c = "_" THEN 63
     ELSE (CHOOSE i \in 1..64 : Base64Alphabet[i] = c) - 1]

IsBase64Char(c) == c \in DOMAIN Base64Values

Base64Value(c) == Base64Values[c]

RECURSIVE Base64DecodeFrom(_, _, _)
\* The bytes of the remaining characters, given the bits carried so far.
\* Node's decoder never rejects its input: a character outside the alphabet
\* is skipped, '=' stops the decoding, and trailing bits that do not fill a
\* byte are dropped.
Base64DecodeFrom(chars, acc, nbits) ==
  IF chars = <<>> \/ Head(chars) = "=" THEN <<>>
  ELSE IF ~IsBase64Char(Head(chars)) THEN Base64DecodeFrom(Tail(chars), acc, nbits)
  ELSE LET acc2 == (acc * 64) + Base64Value(Head(chars))
           n2   == nbits + 6
       IN  IF n2 >= 8
           THEN <<acc2 \div (2 ^ (n2 - 8))>>
                \o Base64DecodeFrom(Tail(chars), acc2 % (2 ^ (n2 - 8)), n2 - 8)
           ELSE Base64DecodeFrom(Tail(chars), acc2, n2)

\* Buffer.from(secret, 'base64').
BufferFromBase64(s) == Base64DecodeFrom(s, 0, 0)

-----------------------------------------------------------------------------
(* utils/optimizely-hmac.ts: createHmacAuthHeader *)

GatewayDefault ==
  <<"h", "t", "t", "p", "s", ":", "/", "/", "c", "g", ".", "o", "p", "t", "i", "m",
    "i", "z", "e", "l", "y", ".", "c", "o", "m">>

EpiHmacPrefix == <<"e", "p", "i", "-", "h", "m", "a", "c", " ">>

\* The string that is signed.
SignatureData(config, method, path, body, timestamp, nonce) ==
  config.appKey \o method \o path \o ToDecimal(timestamp) \o nonce
    \o DigestBase64(Md5(body))

\* The mutant: the body digest is left out of the signed string.
createHmacAuthHeaderNoBody(config, method, path, body, timestamp, random) ==
  LET nonce         == HexEncode(random)
      signatureData == config.appKey \o method \o path \o ToDecimal(timestamp) \o nonce
      secretBuffer  == BufferFromBase64(config.secret)
      base64hmac    == DigestBase64(HmacSha256(secretBuffer, signatureData))
  IN  [authorization |->
         EpiHmacPrefix \o config.appKey \o <<":">> \o ToDecimal(timestamp)
           \o <<":">> \o nonce \o <<":">> \o base64hmac]

\* The mutant: the parts of the signed string are joined with a separator.
createHmacAuthHeaderSeparated(config, method, path, body, timestamp, random) ==
  LET nonce         == HexEncode(random)
      bodyArg       == IF body = undefined THEN <<>> ELSE body
      signatureData == config.appKey \o <<":">> \o method \o <<":">> \o path \o <<":">>
                         \o ToDecimal(timestamp) \o <<":">> \o nonce \o <<":">>
                         \o DigestBase64(Md5(bodyArg))
      secretBuffer  == BufferFromBase64(config.secret)
      base64hmac    == DigestBase64(HmacSha256(secretBuffer, signatureData))
  IN  [authorization |->
         EpiHmacPrefix \o config.appKey \o <<":">> \o ToDecimal(timestamp)
           \o <<":">> \o nonce \o <<":">> \o base64hmac]

\* createHmacAuthHeader(config, method, path, body = ''), given the value
\* Date.now() returns and the bytes randomBytes(16) returns.
createHmacAuthHeader(config, method, path, body, timestamp, random) ==
  LET nonce         == HexEncode(random)
      bodyArg       == IF body = undefined THEN <<>> ELSE body
      signatureData == SignatureData(config, method, path, bodyArg, timestamp, nonce)
      secretBuffer  == BufferFromBase64(config.secret)
      base64hmac    == DigestBase64(HmacSha256(secretBuffer, signatureData))
  IN  [authorization |->
         EpiHmacPrefix \o config.appKey \o <<":">> \o ToDecimal(timestamp)
           \o <<":">> \o nonce \o <<":">> \o base64hmac]

-----------------------------------------------------------------------------
(* JavaScript objects used as string maps                                   *)

\* An object is the sequence of its own properties <<key, value>> in the
\* order they were created; its keys are distinct.  An omitted object:
undefinedObject == << <<"(undefined)">> >>

Digits == Range(DecimalDigits)

RECURSIVE ParseDecimal(_)
\* The number a string of decimal digits denotes.
ParseDecimal(s) ==
  IF s = <<>> THEN 0
  ELSE (ParseDecimal(SubSeq(s, 1, Len(s) - 1)) * 10)
       + ((CHOOSE i \in 1..10 : DecimalDigits[i] = s[Len(s)]) - 1)

\* An integer-like property key ("0", "2", "17"): a canonical array index.
IsArrayIndex(k) ==
  /\ k # <<>>
  /\ \A i \in 1..Len(k) : k[i] \in Digits
  /\ (Len(k) = 1 \/ k[1] # "0")
  /\ Len(k) <= 9

RECURSIVE SortByIndex(_)
\* Properties with integer-like keys in ascending numeric order.
SortByIndex(props) ==
  IF props = <<>> THEN <<>>
  ELSE LET m == CHOOSE i \in 1..Len(props) :
                  \A j \in 1..Len(props) :
                    ParseDecimal(props[i][1]) <= ParseDecimal(props[j][1])
       IN  <<props[m]>>
           \o SortByIndex(SubSeq(props, 1, m - 1) \o SubSeq(props, m + 1, Len(props)))

IsIndexProperty(p) == IsArrayIndex(p[1])
IsNamedProperty(p) == ~IsArrayIndex(p[1])

\* Object.entries(obj): the integer-like keys first, in ascending numeric
\* order, then the other keys in the order of their creation.
ObjectEntries(obj) ==
  SortByIndex(SelectSeq(obj, IsIndexProperty)) \o SelectSeq(obj, IsNamedProperty)

HasKey(obj, k) == \E i \in 1..Len(obj) : obj[i][1] = k

\* obj[k] = v: an existing property keeps its place, a new one is added last.
SetProperty(obj, k, v) ==
  IF HasKey(obj, k)
  THEN [i \in 1..Len(obj) |-> IF obj[i][1] = k THEN <<k, v>> ELSE obj[i]]
  ELSE Append(obj, <<k, v>>)

RECURSIVE SetAll(_, _)
SetAll(obj, props) ==
  IF props = <<>> THEN obj
  ELSE SetAll(SetProperty(obj, Head(props)[1], Head(props)[2]), Tail(props))

\* { ...target, ...source }: the own properties of source are copied onto
\* target in the order Object.entries gives.
Spread(target, source) == SetAll(target, ObjectEntries(source))

-----------------------------------------------------------------------------
(* URL and URLSearchParams                                                  *)

\* The index of the first occurrence of character c in s, or 0.
IndexOf(s, c) ==
  IF \E i \in 1..Len(s) : s[i] = c
  THEN CHOOSE i \in 1..Len(s) : s[i] = c /\ \A j \in 1..(i - 1) : s[j] # c
  ELSE 0

\* s without its first n characters.
Drop(s, n) == SubSeq(s, n + 1, Len(s))

AlphaNumerics == Range(LowerCaseLetters) \cup Range(UpperCaseLetters) \cup Digits

\* The characters the application/x-www-form-urlencoded serializer leaves
\* as they are.
UrlEncodedSafe == AlphaNumerics \cup {"*", "-", ".", "_"}

\* The percent-encoding of the other characters the model's strings contain.
PercentCodes ==
  [c \in {"&", "=", "?", "/", "#", ",", ":", "+", "%"} |->
     CASE c = "&" -> <<"%", "2", "6">>
       [] c = "=" -> <<"%", "3", "D">>
       [] c = "?" -> <<"%", "3", "F">>
       [] c = "/" -> <<"%", "2", "F">>
       [] c = "#" -> <<"%", "2", "3">>
       [] c = "," -> <<"%", "2", "C">>
       [] c = ":" -> <<"%", "3", "A">>
       [] c = "+" -> <<"%", "2", "B">>
       [] c = "%" -> <<"%", "2", "5">>]

RECURSIVE UrlEncode(_)
\* The application/x-www-form-urlencoded serialisation of a string.
UrlEncode(s) ==
  IF s = <<>> THEN <<>>
  ELSE (IF Head(s) \in UrlEncodedSafe THEN <<Head(s)>>
        ELSE IF Head(s) = " " THEN <<"+">>
        ELSE PercentCodes[Head(s)])
       \o UrlEncode(Tail(s))

RECURSIVE UrlDecode(_)
\* The decoding the application/x-www-form-urlencoded parser applies.
UrlDecode(s) ==
  IF s = <<>> THEN <<>>
  ELSE IF Head(s) = "+" THEN <<" ">> \o UrlDecode(Tail(s))
  ELSE IF /\ Head(s) = "%"
          /\ Len(s) >= 3
          /\ \E c \in DOMAIN PercentCodes : PercentCodes[c] = SubSeq(s, 1, 3)
       THEN <<CHOOSE c \in DOMAIN PercentCodes : PercentCodes[c] = SubSeq(s, 1, 3)>>
            \o UrlDecode(Drop(s, 3))
  ELSE <<Head(s)>> \o UrlDecode(Tail(s))

RECURSIVE SerializeParams(_)
\* The application/x-www-form-urlencoded serialisation of a list of pairs.
SerializeParams(list) ==
  IF list = <<>> THEN <<>>
  ELSE UrlEncode(Head(list)[1]) \o <<"=">> \o UrlEncode(Head(list)[2])
       \o (IF Tail(list) = <<>> THEN <<>> ELSE <<"&">> \o SerializeParams(Tail(list)))

\* One name=value piece of a query string, as a pair.
ParsePair(piece) ==
  LET eq == IndexOf(piece, "=")
  IN  IF eq = 0 THEN <<UrlDecode(piece), <<>>>>
      ELSE <<UrlDecode(SubSeq(piece, 1, eq - 1)), UrlDecode(Drop(piece, eq))>>

RECURSIVE ParseParams(_)
\* The application/x-www-form-urlencoded parsing of a query string.
ParseParams(query) ==
  IF query = <<>> THEN <<>>
  ELSE LET amp   == IndexOf(query, "&")
           piece == IF amp = 0 THEN query ELSE SubSeq(query, 1, amp - 1)
           rest  == IF amp = 0 THEN <<>> ELSE Drop(query, amp)
       IN  (IF piece = <<>> THEN <<>> ELSE <<ParsePair(piece)>>) \o ParseParams(rest)

\* The origin scheme://host of an absolute URL string.
OriginOf(href) ==
  LET afterScheme == Drop(href, IndexOf(href, ":") + 2)
      slash       == IndexOf(afterScheme, "/")
      hostLen     == IF slash = 0 THEN Len(afterScheme) ELSE slash - 1
  IN  SubSeq(href, 1, IndexOf(href, ":") + 2 + hostLen)

\* new URL(endpoint, base) for an endpoint that is an absolute path: the
\* origin of the base, the path of the endpoint, its query (undefined when
\* it has no '?') and its fragment (undefined when it has no '#').
NewURL(endpoint, base) ==
  LET hashAt    == IndexOf(endpoint, "#")
      noHash    == IF hashAt = 0 THEN endpoint ELSE SubSeq(endpoint, 1, hashAt - 1)
      queryAt   == IndexOf(noHash, "?")
  IN  [origin   |-> OriginOf(base),
       pathname |-> IF queryAt = 0 THEN noHash ELSE SubSeq(noHash, 1, queryAt - 1),
       query    |-> IF queryAt = 0 THEN undefined ELSE Drop(noHash, queryAt),
       fragment |-> IF hashAt = 0 THEN undefined ELSE Drop(endpoint, hashAt)]

\* url.searchParams.append(key, value): the pair is added to the list parsed
\* from the query, and the query becomes the serialisation of the list.
SearchParamsAppend(url, key, value) ==
  LET list == IF url.query = undefined THEN <<>> ELSE ParseParams(url.query)
  IN  [url EXCEPT !.query = SerializeParams(Append(list, <<key, value>>))]

RECURSIVE AppendAll(_, _)
\* entries.forEach(([key, value]) => url.searchParams.append(key, value))
AppendAll(url, entries) ==
  IF entries = <<>> THEN url
  ELSE AppendAll(SearchParamsAppend(url, Head(entries)[1], Head(entries)[2]),
                 Tail(entries))

\* url.search
UrlSearch(url) ==
  IF url.query = undefined \/ url.query = <<>> THEN <<>> ELSE <<"?">> \o url.query

\* url.toString()
UrlToString(url) ==
  url.origin \o url.pathname
    \o (IF url.query = undefined THEN <<>> ELSE <<"?">> \o url.query)
    \o (IF url.fragment = undefined THEN <<>> ELSE <<"#">> \o url.fragment)

-----------------------------------------------------------------------------
(* fetch: what a call transmits                                             *)

NormalizedMethods ==
  { <<"D", "E", "L", "E", "T", "E">>, <<"G", "E", "T">>, <<"H", "E", "A", "D">>,
    <<"O", "P", "T", "I", "O", "N", "S">>, <<"P", "O", "S", "T">>, <<"P", "U", "T">> }

\* The method of the request fetch builds: the six standard methods are
\* normalised to upper case, any other method is kept as given.
WireMethod(method) ==
  IF ToUpperCase(method) \in NormalizedMethods THEN ToUpperCase(method) ELSE method

RECURSIVE JoinValues(_)
JoinValues(values) ==
  IF values = <<>> THEN <<>>
  ELSE Head(values)
       \o (IF Tail(values) = <<>> THEN <<>> ELSE <<",", " ">> \o JoinValues(Tail(values)))

\* new Headers(init).get(name): header names match without regard to case,
\* and the values given under the same name are combined with ", " in the
\* order of the properties of init.  undefined when there is none.
WireHeader(init, name) ==
  LET matching == SelectSeq(ObjectEntries(init),
                            LAMBDA p : ToLowerCase(p[1]) = ToLowerCase(name))
  IN  IF matching = <<>> THEN undefined
      ELSE JoinValues([i \in 1..Len(matching) |-> matching[i][2]])

-----------------------------------------------------------------------------
(* utils/optimizely-hmac.ts: makeOptimizelyGraphRequest *)

GET  == <<"G", "E", "T">>
PUT  == <<"P", "U", "T">>
POST == <<"P", "O", "S", "T">>
HEAD == <<"H", "E", "A", "D">>

ContentTypeName == <<"C", "o", "n", "t", "e", "n", "t", "-", "T", "y", "p", "e">>
AuthorizationName ==
  <<"a", "u", "t", "h", "o", "r", "i", "z", "a", "t", "i", "o", "n">>
TextPlain == <<"t", "e", "x", "t", "/", "p", "l", "a", "i", "n">>
ApplicationJson ==
  <<"a", "p", "p", "l", "i", "c", "a", "t", "i", "o", "n", "/", "j", "s", "o", "n">>

\* The mutant: the path is read for the signature before the query
\* parameters are appended to the URL.
makeOptimizelyGraphRequestSignsEarly(config, endpoint, options, timestamp, random) ==
  LET method      == IF options.method = undefined THEN GET ELSE options.method
      body        == IF options.body = undefined THEN <<>> ELSE options.body
      headers     == IF options.headers = undefinedObject THEN <<>> ELSE options.headers
      queryParams == IF options.queryParams = undefinedObject THEN <<>>
                     ELSE options.queryParams
      bare        == NewURL(endpoint, config.gatewayUrl)
      url         == AppendAll(bare, ObjectEntries(queryParams))
      pathWithQuery == bare.pathname \o UrlSearch(bare)
      authHeader  == createHmacAuthHeader(config, method, pathWithQuery, body,
                                          timestamp, random)
  IN  [url  |-> UrlToString(url),
       init |-> [method  |-> method,
                 headers |-> Spread(Spread(<< <<ContentTypeName, TextPlain>> >>, headers),
                                    << <<AuthorizationName, authHeader.authorization>> >>),
                 body    |-> IF method # GET THEN body ELSE undefined]]

\* The mutant: the header is computed once, when the module is loaded, and
\* every request reuses it.
makeOptimizelyGraphRequestCachedHeader(config, endpoint, options, timestamp, random) ==
  LET method      == IF options.method = undefined THEN GET ELSE options.method
      body        == IF options.body = undefined THEN <<>> ELSE options.body
      headers     == IF options.headers = undefinedObject THEN <<>> ELSE options.headers
      queryParams == IF options.queryParams = undefinedObject THEN <<>>
                     ELSE options.queryParams
      url         == AppendAll(NewURL(endpoint, config.gatewayUrl),
                               ObjectEntries(queryParams))
      pathWithQuery == url.pathname \o UrlSearch(url)
      authHeader  == createHmacAuthHeader(config, method, pathWithQuery, body,
                                          EpochStart, [i \in 1..NonceBytes |-> 255 - i])
  IN  [url  |-> UrlToString(url),
       init |-> [method  |-> method,
                 headers |-> Spread(Spread(<< <<ContentTypeName, TextPlain>> >>, headers),
                                    << <<AuthorizationName, authHeader.authorization>> >>),
                 body    |-> IF method # GET THEN body ELSE undefined]]

\* makeOptimizelyGraphRequest(config, endpoint, options) up to its call of
\* fetch, given the value Date.now() returns and the bytes randomBytes(16)
\* returns: the arguments fetch is called with.  The promise fetch returns is
\* returned as it is.
makeOptimizelyGraphRequest(config, endpoint, options, timestamp, random) ==
  LET method      == IF options.method = undefined THEN GET ELSE options.method
      body        == IF options.body = undefined THEN <<>> ELSE options.body
      headers     == IF options.headers = undefinedObject THEN <<>> ELSE options.headers
      queryParams == IF options.queryParams = undefinedObject THEN <<>>
                     ELSE options.queryParams
      url         == AppendAll(NewURL(endpoint, config.gatewayUrl),
                               ObjectEntries(queryParams))
      pathWithQuery == url.pathname \o UrlSearch(url)
      authHeader  == createHmacAuthHeader(config, method, pathWithQuery, body,
                                          timestamp, random)
  IN  [url  |-> UrlToString(url),
       init |-> [method  |-> method,
                 headers |-> Spread(Spread(<< <<ContentTypeName, TextPlain>> >>, headers),
                                    << <<AuthorizationName, authHeader.authorization>> >>),
                 body    |-> IF method # GET THEN body ELSE undefined]]

\* fetch rejects a request whose method is GET or HEAD and that has a body,
\* without transmitting anything.
FetchRefuses(call) ==
  WireMethod(call.init.method) \in {GET, HEAD} /\ call.init.body # undefined

-----------------------------------------------------------------------------
(* Truthiness and substrings *)

\* A string is falsy when it is undefined or empty.
Truthy(v) == v # undefined /\ v # <<>>

\* a || b on strings.
OrElse(a, b) == IF Truthy(a) THEN a ELSE b

\* String.prototype.includes
Includes(s, sub) ==
  \E i \in 0..(Len(s) - Len(sub)) : SubSeq(s, i + 1, i + Len(sub)) = sub

-----------------------------------------------------------------------------
(* utils/optimizely-hmac.ts: getOptimizelyGraphConfig *)

MissingEnvMessage ==
  <<"Missing required environment variables: OPTIMIZELY_GRAPH_APP_KEY and OPTIMIZELY_GRAPH_SECRET">>

NoConfig == [gatewayUrl |-> <<>>, appKey |-> <<>>, secret |-> <<>>]

\* The mutant: the configuration is refused only when both the key and the
\* secret are missing.
getOptimizelyGraphConfigBothMissing(environment) ==
  IF ~Truthy(environment.OPTIMIZELY_GRAPH_APP_KEY)
     /\ ~Truthy(environment.OPTIMIZELY_GRAPH_SECRET)
  THEN [threw |-> TRUE, message |-> MissingEnvMessage, value |-> NoConfig]
  ELSE [threw |-> FALSE, message |-> <<>>,
        value |-> [gatewayUrl |-> OrElse(environment.OPTIMIZELY_GRAPH_GATEWAY_URL,
                                         GatewayDefault),
                   appKey |-> environment.OPTIMIZELY_GRAPH_APP_KEY,
                   secret |-> environment.OPTIMIZELY_GRAPH_SECRET]]

\* getOptimizelyGraphConfig(): the configuration read from import.meta.env,
\* or the error it throws.
getOptimizelyGraphConfig(environment) ==
  IF ~Truthy(environment.OPTIMIZELY_GRAPH_APP_KEY)
     \/ ~Truthy(environment.OPTIMIZELY_GRAPH_SECRET)
  THEN [threw |-> TRUE, message |-> MissingEnvMessage, value |-> NoConfig]
  ELSE [threw |-> FALSE, message |-> <<>>,
        value |-> [gatewayUrl |-> OrElse(environment.OPTIMIZELY_GRAPH_GATEWAY_URL,
                                         GatewayDefault),
                   appKey |-> environment.OPTIMIZELY_GRAPH_APP_KEY,
                   secret |-> environment.OPTIMIZELY_GRAPH_SECRET]]

-----------------------------------------------------------------------------
(* Responses *)

\* response.ok
ResponseOk(response) == response.status \in 200..299

\* The message of the error fetch rejects with, and of the error reading a
\* body rejects with when the connection is lost.
FetchFailedMessage == <<"fetch failed">>
BodyRefusedMessage == <<"Request with GET/HEAD method cannot have body.">>
TerminatedMessage == <<"terminated">>

NotFoundText == <<"N", "o", "t", " ", "F", "o", "u", "n", "d">>
BoomText == <<"b", "o", "o", "m">>

\* A body whose text is not JSON, one that cannot be read to its end, and
\* one with JSON in it.
NoJson == [valid |-> FALSE]
TextBody(text) == [readable |-> TRUE, text |-> text, json |-> NoJson]
UnreadableBody(text) == [readable |-> FALSE, text |-> text, json |-> NoJson]
JsonBody(result) ==
  [readable |-> TRUE, text |-> <<"(json)">>, json |-> [valid |-> TRUE, value |-> result]]
JsonSyntaxMessage == <<"Unexpected token">>

HttpResponse(status, statusText, body) ==
  [type |-> "response", status |-> status, statusText |-> statusText,
   body |-> body, message |-> <<>>]

Rejection(type, message) ==
  [type |-> type, status |-> 0, statusText |-> <<>>, body |-> UnreadableBody(<<>>),
   message |-> message]

NotSettled == Rejection("none", <<>>)

\* What becomes of a call of fetch made by one of the helpers: a response
\* whose body can or cannot be read to its end, or a rejection.
TextOutcomes(call) ==
  IF FetchRefuses(call) THEN { Rejection("TypeError", BodyRefusedMessage) }
  ELSE { HttpResponse(200, <<"O", "K">>, TextBody(BoomText)),
         HttpResponse(299, <<>>, TextBody(<<>>)),
         HttpResponse(300, <<>>, TextBody(BoomText)),
         HttpResponse(404, NotFoundText, TextBody(BoomText)),
         HttpResponse(404, NotFoundText, UnreadableBody(BoomText)),
         HttpResponse(500, <<>>, TextBody(<<>>)),
         Rejection("NetworkError", FetchFailedMessage) }

-----------------------------------------------------------------------------
(* utils/optimizely-hmac.ts: uploadSynonyms *)

SynonymsEndpoint ==
  <<"/", "r", "e", "s", "o", "u", "r", "c", "e", "s", "/", "s", "y", "n", "o", "n",
    "y", "m", "s">>
SynonymSlotName == <<"s", "y", "n", "o", "n", "y", "m", "_", "s", "l", "o", "t">>
LanguageRoutingName ==
  <<"l", "a", "n", "g", "u", "a", "g", "e", "_", "r", "o", "u", "t", "i", "n", "g">>
Standard == <<"s", "t", "a", "n", "d", "a", "r", "d">>

\* const { synonymSlot = '1', languageRouting = 'standard' } = options
SlotOf(options) ==
  IF options.synonymSlot = undefined THEN <<"1">> ELSE options.synonymSlot
RoutingOf(options) ==
  IF options.languageRouting = undefined THEN Standard ELSE options.languageRouting

\* The mutant: the language routing is appended before the slot.
uploadSynonymsRequestRoutingFirst(config, synonyms, options, timestamp, random) ==
  makeOptimizelyGraphRequest(config, SynonymsEndpoint,
    [method |-> PUT, body |-> synonyms, headers |-> undefinedObject,
     queryParams |-> << <<LanguageRoutingName, RoutingOf(options)>>,
                        <<SynonymSlotName, SlotOf(options)>> >>],
    timestamp, random)

\* uploadSynonyms up to its await: the call of fetch it makes through
\* makeOptimizelyGraphRequest.
uploadSynonymsRequest(config, synonyms, options, timestamp, random) ==
  makeOptimizelyGraphRequest(config, SynonymsEndpoint,
    [method |-> PUT, body |-> synonyms, headers |-> undefinedObject,
     queryParams |-> << <<SynonymSlotName, SlotOf(options)>>,
                        <<LanguageRoutingName, RoutingOf(options)>> >>],
    timestamp, random)

\* The mutant: a redirect status counts as a success.
uploadSynonymsResultBelow400(options, outcome) ==
  IF outcome.type = "response" /\ outcome.status < 400
  THEN [success |-> TRUE,
        message |-> <<"Synonyms successfully uploaded to slot ">> \o SlotOf(options)
                      \o <<" for language routing: ">> \o RoutingOf(options),
        error |-> undefined]
  ELSE IF outcome.type = "response" /\ outcome.body.readable
  THEN [success |-> FALSE, message |-> <<"Failed to upload synonyms">>,
        error |-> ToDecimal(outcome.status) \o <<" ">> \o outcome.statusText
                    \o <<" ", "-", " ">> \o outcome.body.text]
  ELSE [success |-> FALSE, message |-> <<"Network error">>,
        error |-> IF outcome.type = "response" THEN TerminatedMessage
                  ELSE outcome.message]

\* uploadSynonyms from its await on: the value it returns for what became of
\* the request.  A rejection of the request, or of the reading of the body,
\* is caught.
uploadSynonymsResult(options, outcome) ==
  IF outcome.type = "response" /\ ResponseOk(outcome)
  THEN [success |-> TRUE,
        message |-> <<"Synonyms successfully uploaded to slot ">> \o SlotOf(options)
                      \o <<" for language routing: ">> \o RoutingOf(options),
        error |-> undefined]
  ELSE IF outcome.type = "response" /\ outcome.body.readable
  THEN [success |-> FALSE, message |-> <<"Failed to upload synonyms">>,
        error |-> ToDecimal(outcome.status) \o <<" ">> \o outcome.statusText
                    \o <<" ", "-", " ">> \o outcome.body.text]
  ELSE [success |-> FALSE, message |-> <<"Network error">>,
        error |-> IF outcome.type = "response" THEN TerminatedMessage
                  ELSE outcome.message]

-----------------------------------------------------------------------------
(* The inputs of the signer *)

\* base64 of 16 zero bytes
SecretZero16 ==
  <<"A", "A", "A", "A", "A", "A", "A", "A", "A", "A", "A", "A", "A", "A", "A", "A",
    "A", "A", "A", "A", "A", "A", "=", "=">>
\* base64 of the bytes 65, 66, 67
SecretABC == <<"Q", "U", "J", "D">>
\* not base64: '!' is outside the alphabet
SecretMalformed == <<"Q", "U", "!", "D">>

SignAppKeys == { <<"a", "k", "1">>, <<"a", "k">> }
SignSecrets == { SecretZero16, SecretABC, SecretMalformed }
SignMethods == { <<"P", "U", "T">>, <<"p", "u", "t">> }
SignPaths   == { <<"/", "r">>, <<"/", "r", "?", "s", "=", "1">> }
SignBodies  == { undefined, <<>>, <<"p", "c">> }

SignConfigs ==
  [gatewayUrl : {GatewayDefault}, appKey : SignAppKeys, secret : SignSecrets]

\* Two computations, so that one can be compared with the other.
SignSlots == {1, 2}

NoHeader == [authorization |-> <<>>]

-----------------------------------------------------------------------------
(* The signer alone: its inputs are drawn at the start, each computation    *)
(* reads the clock and the random source when it runs.                      *)

Tick ==
  /\ now < EpochStart + MaxTicks
  /\ now' = now + 1
  /\ UNCHANGED <<hmacCalls, request, invocations, fetchLog, env, running, conversion, chain, siteVars>>

\* In how many of appKey, secret, method, path and body two calls differ.
InputDistance(a, b) ==
  Cardinality({ f \in {"appKey", "secret", "method", "path", "body"} :
    \/ f = "appKey" /\ a.config.appKey # b.config.appKey
    \/ f = "secret" /\ a.config.secret # b.config.secret
    \/ f = "method" /\ a.method # b.method
    \/ f = "path" /\ a.path # b.path
    \/ f = "body" /\ a.body # b.body })

\* The first computation has any inputs; the second has the same inputs or
\* differs from it in one of them.
InitSign ==
  /\ SiteUnused
  /\ now = EpochStart
  /\ hmacCalls \in
       [SignSlots ->
          [config : SignConfigs, method : SignMethods, path : SignPaths,
           body : SignBodies, state : {"ready"}, timestamp : {0},
           random : {<<>>}, result : {NoHeader}]]
  /\ InputDistance(hmacCalls[1], hmacCalls[2]) <= 1
  /\ request = Unused
  /\ invocations = Unused
  /\ fetchLog = Unused
  /\ env = Unused
  /\ running = Unused
  /\ conversion = Unused
  /\ chain = Unused

\* One invocation of createHmacAuthHeader.
CallCreateHmacAuthHeader(s) ==
  /\ hmacCalls[s].state = "ready"
  /\ \E random \in RandomDraws :
       hmacCalls' =
         [hmacCalls EXCEPT
            ![s].state = "returned",
            ![s].timestamp = now,
            ![s].random = random,
            ![s].result =
               createHmacAuthHeader(hmacCalls[s].config, hmacCalls[s].method,
                                    hmacCalls[s].path, hmacCalls[s].body, now, random)]
  /\ UNCHANGED <<now, request, invocations, fetchLog, env, running, conversion, chain, siteVars>>

NextSign ==
  \/ Tick
  \/ \E s \in SignSlots : CallCreateHmacAuthHeader(s)

SpecSign == InitSign /\ [][NextSign]_vars

-----------------------------------------------------------------------------
(* Properties of the signer, checked under SpecSign *)

Returned(s) == hmacCalls[s].state = "returned"

\* The body that is digested: an omitted body is the empty string.
EffectiveBody(s) == IF hmacCalls[s].body = undefined THEN <<>> ELSE hmacCalls[s].body

\* The signature of a returned header: its last element.
SignatureOf(header) == header[Len(header)]

Base64Chars == Range(Base64Alphabet)

\* Valid base64 (RFC 4648): a multiple of four characters of the alphabet,
\* the last one or two of which may be the padding '='.
IsValidBase64(s) ==
  /\ Len(s) % 4 = 0
  /\ \E pad \in 0..2 :
       /\ pad <= Len(s)
       /\ \A i \in 1..Len(s) :
            IF i <= Len(s) - pad THEN s[i] \in Base64Chars ELSE s[i] = "="

\* The header the documented algorithm gives for a method as it is signed.
DocumentedHeader(config, signedMethod, path, body, timestamp, random) ==
  LET nonce == HexEncode(random)
      data  == config.appKey \o signedMethod \o path \o ToDecimal(timestamp) \o nonce
                 \o DigestBase64(Md5(body))
      signature == DigestBase64(HmacSha256(BufferFromBase64(config.secret), data))
  IN  EpiHmacPrefix \o config.appKey \o <<":">> \o ToDecimal(timestamp) \o <<":">>
        \o nonce \o <<":">> \o signature

\* C1: every header createHmacAuthHeader returns is "epi-hmac " + appKey + ":"
\* + timestamp + ":" + nonce + ":" + signature, where the signature is
\* base64(HMAC-SHA256(key = decoded secret, data = appKey ++ method ++ path ++
\* decimal(timestamp) ++ nonce ++ base64(MD5(body)))) with no separators, and
\* the timestamp and nonce of the header are the clock value and the random
\* bytes read by that call, the same ones that were signed.
C1_HeaderIsDocumented ==
  \A s \in SignSlots :
    Returned(s) =>
      hmacCalls[s].result.authorization =
        DocumentedHeader(hmacCalls[s].config, hmacCalls[s].method, hmacCalls[s].path,
                         EffectiveBody(s), hmacCalls[s].timestamp, hmacCalls[s].random)

\* A header was returned for a PUT with a body, a query string in the path and
\* a timestamp of more than one digit.
C1_Witness ==
  \E s \in SignSlots :
    /\ Returned(s)
    /\ hmacCalls[s].method = <<"P", "U", "T">>
    /\ EffectiveBody(s) # <<>>
    /\ "?" \in Range(hmacCalls[s].path)
    /\ Len(ToDecimal(hmacCalls[s].timestamp)) > 1
    /\ Len(hmacCalls[s].result.authorization) > Len(EpiHmacPrefix)

\* C2: the method component of the signed string is the uppercase form of the
\* method passed in ('put' is signed as 'PUT').
C2_MethodSignedUppercase ==
  \A s \in SignSlots :
    Returned(s) =>
      hmacCalls[s].result.authorization =
        DocumentedHeader(hmacCalls[s].config, ToUpperCase(hmacCalls[s].method),
                         hmacCalls[s].path, EffectiveBody(s),
                         hmacCalls[s].timestamp, hmacCalls[s].random)

\* C5: createHmacAuthHeader returns no header when the secret is not valid
\* base64.
C5_MalformedSecretRejected ==
  \A s \in SignSlots :
    ~IsValidBase64(hmacCalls[s].config.secret) => ~Returned(s)

SameButBody(a, b) ==
  /\ hmacCalls[a].config = hmacCalls[b].config
  /\ hmacCalls[a].method = hmacCalls[b].method
  /\ hmacCalls[a].path = hmacCalls[b].path
  /\ hmacCalls[a].timestamp = hmacCalls[b].timestamp
  /\ hmacCalls[a].random = hmacCalls[b].random

\* C6: two computations with the same appKey, secret, method, path, body,
\* timestamp and nonce have the same signature, and two computations that
\* differ only in the body have different signatures.
C6_SignatureDeterminedByInputs ==
  (Returned(1) /\ Returned(2) /\ SameButBody(1, 2)) =>
    /\ EffectiveBody(1) = EffectiveBody(2) =>
         SignatureOf(hmacCalls[1].result.authorization)
           = SignatureOf(hmacCalls[2].result.authorization)
    /\ EffectiveBody(1) # EffectiveBody(2) =>
         SignatureOf(hmacCalls[1].result.authorization)
           # SignatureOf(hmacCalls[2].result.authorization)

\* Two computations ran at the same clock value with the same nonce and all
\* inputs equal but the body.
C6_Witness ==
  /\ Returned(1) /\ Returned(2) /\ SameButBody(1, 2)
  /\ EffectiveBody(1) # EffectiveBody(2)
  /\ hmacCalls[1].result.authorization # hmacCalls[2].result.authorization

-----------------------------------------------------------------------------
(* The dispatcher alone: the arguments of one invocation of                 *)
(* makeOptimizelyGraphRequest are drawn at the start.                       *)

GatewayWithPath ==
  <<"h", "t", "t", "p", "s", ":", "/", "/", "c", "g", ".", "e", "x", "a", "m", "p",
    "l", "e", ".", "c", "o", "m", "/", "v", "1">>

DispatchConfigs ==
  [gatewayUrl : {GatewayDefault, GatewayWithPath},
   appKey : { <<"a", "k", "1">> }, secret : {SecretZero16}]

DispatchEndpoints ==
  { <<"/", "r", "e", "s", "o", "u", "r", "c", "e", "s", "/", "s", "y", "n", "o", "n",
      "y", "m", "s">>,
    <<"/", "c", "?", "x", "=", "1">>,
    <<"/", "c", "#", "f">> }

DispatchMethods == { undefined, GET, PUT, <<"p", "u", "t">> }

DispatchBodies == { undefined, <<>>, <<"p", "c">> }

DispatchHeaders ==
  { undefinedObject,
    << <<ContentTypeName, ApplicationJson>> >>,
    << <<ToLowerCase(ContentTypeName), ApplicationJson>> >>,
    << <<<<"A", "u", "t", "h", "o", "r", "i", "z", "a", "t", "i", "o", "n">>,
         <<"B", "e", "a", "r", "e", "r", " ", "x">>>> >> }

DispatchQueryParams ==
  { undefinedObject,
    << <<<<"s", "y", "n", "o", "n", "y", "m", "_", "s", "l", "o", "t">>, <<"1">>>>,
       <<<<"l", "a", "n", "g", "u", "a", "g", "e", "_", "r", "o", "u", "t", "i", "n", "g">>,
         <<"e", "n">>>> >>,
    << <<<<"q">>, <<"a", " ", "b", "&", "c">>>>, <<<<"2">>, <<"z">>>> >>,
    << <<<<"1", "0">>, <<"x">>>>, <<<<"9">>, <<"y">>>> >> }

NoFetch == [url |-> <<>>, init |-> [method |-> <<>>, headers |-> <<>>, body |-> <<>>]]
NoOutcome == [type |-> "none", status |-> 0]

\* What becomes of a call of fetch: a response with a status, or a rejection.
FetchOutcomes(call) ==
  IF FetchRefuses(call) THEN { [type |-> "TypeError", status |-> 0] }
  ELSE { [type |-> "response", status |-> 200],
         [type |-> "response", status |-> 404],
         [type |-> "NetworkError", status |-> 0] }

InitDispatch ==
  /\ SiteUnused
  /\ now = EpochStart
  /\ hmacCalls = Unused
  /\ invocations = Unused
  /\ fetchLog = Unused
  /\ env = Unused
  /\ running = Unused
  /\ conversion = Unused
  /\ chain = Unused
  /\ request \in
       [config : DispatchConfigs, endpoint : DispatchEndpoints,
        options : [method : DispatchMethods, body : DispatchBodies,
                   headers : DispatchHeaders, queryParams : DispatchQueryParams],
        state : {"ready"}, timestamp : {0}, random : {<<>>},
        fetch : {NoFetch}, outcome : {NoOutcome}]

\* The invocation runs to its call of fetch.
CallMakeOptimizelyGraphRequest ==
  /\ request.state = "ready"
  /\ \E random \in RandomDraws :
       request' =
         [request EXCEPT
            !.state = "pending",
            !.timestamp = now,
            !.random = random,
            !.fetch = makeOptimizelyGraphRequest(request.config, request.endpoint,
                                                 request.options, now, random)]
  /\ UNCHANGED <<now, hmacCalls, invocations, fetchLog, env, running, conversion, chain, siteVars>>

\* The promise of fetch, which is the promise the invocation returned, settles.
FetchSettles ==
  /\ request.state = "pending"
  /\ \E outcome \in FetchOutcomes(request.fetch) :
       request' = [request EXCEPT !.state = "settled", !.outcome = outcome]
  /\ UNCHANGED <<now, hmacCalls, invocations, fetchLog, env, running, conversion, chain, siteVars>>

NextDispatch ==
  \/ Tick
  \/ CallMakeOptimizelyGraphRequest
  \/ FetchSettles

SpecDispatch == InitDispatch /\ [][NextDispatch]_vars

-----------------------------------------------------------------------------
(* Properties of the dispatcher, checked under SpecDispatch *)

\* fetch has been called.
Fetched == request.state \in {"pending", "settled"}

\* The value of an own property of an object, or undefined.
GetProperty(obj, k) ==
  IF HasKey(obj, k) THEN obj[CHOOSE i \in 1..Len(obj) : obj[i][1] = k][2]
  ELSE undefined

\* The epi-hmac value computed for the request.
ComputedAuthorization == GetProperty(request.fetch.init.headers, AuthorizationName)

\* The path and query of an absolute URL string: what follows the origin, up
\* to the fragment; an empty query counts as none.
PathAndQueryOfHref(href) ==
  LET rest    == Drop(href, Len(OriginOf(href)))
      hashAt  == IndexOf(rest, "#")
      noHash  == IF hashAt = 0 THEN rest ELSE SubSeq(rest, 1, hashAt - 1)
  IN  IF noHash # <<>> /\ noHash[Len(noHash)] = "?" /\ IndexOf(noHash, "?") = Len(noHash)
      THEN SubSeq(noHash, 1, Len(noHash) - 1)
      ELSE noHash

\* The query parameters of an absolute URL string, decoded, in their order.
ParamsOfHref(href) ==
  LET pq == PathAndQueryOfHref(href)
  IN  IF IndexOf(pq, "?") = 0 THEN <<>> ELSE ParseParams(Drop(pq, IndexOf(pq, "?")))

\* The method, body and maps the caller's options stand for.
OptionMethod == IF request.options.method = undefined THEN GET ELSE request.options.method
OptionBody == IF request.options.body = undefined THEN <<>> ELSE request.options.body
OptionQueryParams ==
  IF request.options.queryParams = undefinedObject THEN <<>>
  ELSE request.options.queryParams
OptionHeaders ==
  IF request.options.headers = undefinedObject THEN <<>> ELSE request.options.headers

\* The body fetch is given to transmit: the empty string when there is none.
TransmittedBody ==
  IF request.fetch.init.body = undefined THEN <<>> ELSE request.fetch.init.body

\* C3: the body digested for the signature is the body transmitted: for GET
\* no body is sent and the digest is that of the empty string, whatever body
\* the caller supplies; for every other method the caller's body is sent
\* verbatim and that same body is digested.
C3_DigestedBodyIsTransmittedBody ==
  Fetched =>
    /\ OptionMethod = GET => request.fetch.init.body = undefined
    /\ OptionMethod # GET => request.fetch.init.body = OptionBody
    /\ ComputedAuthorization =
         DocumentedHeader(request.config, OptionMethod,
                          PathAndQueryOfHref(request.fetch.url), TransmittedBody,
                          request.timestamp, request.random)

\* The path that was signed is the path and query of the URL given to fetch.
SignedPathIsFetchedPath ==
  ComputedAuthorization =
    DocumentedHeader(request.config, OptionMethod,
                     PathAndQueryOfHref(request.fetch.url), OptionBody,
                     request.timestamp, request.random)

\* The parameters of the endpoint's own query string.
EndpointParams ==
  ParamsOfHref(GatewayDefault \o request.endpoint)

\* C4 (as stated): the signed path is the path and query of the URL given to
\* fetch, and the query parameters follow the endpoint's own in the order
\* they were inserted into the queryParams map.
C4_SignedPathInInsertionOrder ==
  Fetched =>
    /\ SignedPathIsFetchedPath
    /\ ParamsOfHref(request.fetch.url) = EndpointParams \o OptionQueryParams

\* C4 (amended): the signed path is the path and query of the URL given to
\* fetch, and the query parameters follow the endpoint's own in the order
\* Object.entries enumerates the queryParams map: integer-like keys first in
\* ascending order, then the other keys in insertion order.
C4_SignedPathIsFetchedPath ==
  Fetched =>
    /\ SignedPathIsFetchedPath
    /\ ParamsOfHref(request.fetch.url)
         = EndpointParams \o ObjectEntries(OptionQueryParams)

\* fetch was called for an endpoint with its own query and a queryParams map
\* that has an integer-like key inserted after a named one and a value that
\* needs encoding.
C4_Witness ==
  /\ Fetched
  /\ EndpointParams # <<>>
  /\ Len(OptionQueryParams) = 2
  /\ ~IsArrayIndex(OptionQueryParams[1][1])
  /\ IsArrayIndex(OptionQueryParams[2][1])
  /\ "%" \in Range(request.fetch.url)
  /\ ParamsOfHref(request.fetch.url) # EndpointParams \o OptionQueryParams

\* The Content-Type headers the caller supplied, under any casing of the name.
SuppliedContentType == WireHeader(OptionHeaders, ContentTypeName)

\* C9: the Content-Type transmitted is text/plain when the caller supplies no
\* Content-Type header, and exactly the caller's value when one is supplied.
C9_ContentTypeDefaultOrCallers ==
  Fetched =>
    WireHeader(request.fetch.init.headers, ContentTypeName) =
      (IF SuppliedContentType = undefined THEN TextPlain ELSE SuppliedContentType)

-----------------------------------------------------------------------------
(* Concurrent invocations of makeOptimizelyGraphRequest.  The function has  *)
(* no await before its call of fetch: an invocation runs to that call in    *)
(* one step, and its promise settles later, in any order with the others.   *)

ConcurrentConfig ==
  [gatewayUrl |-> GatewayDefault, appKey |-> <<"a", "k", "1">>, secret |-> SecretABC]

ConcurrentEndpoint == <<"/", "c">>

ConcurrentOptions ==
  { [method |-> undefined, body |-> undefined, headers |-> undefinedObject,
     queryParams |-> undefinedObject],
    [method |-> PUT, body |-> <<"p", "c">>, headers |-> undefinedObject,
     queryParams |-> << <<<<"s">>, <<"1">>>> >>] }

CallIds == 1..MaxCalls

InitConcurrent ==
  /\ SiteUnused
  /\ now = EpochStart
  /\ hmacCalls = Unused
  /\ request = Unused
  /\ invocations \in
       [CallIds ->
          [options : ConcurrentOptions, state : {"ready"}, timestamp : {0},
           random : {<<>>}, outcome : {NoOutcome}]]
  /\ fetchLog = <<>>
  /\ env = Unused
  /\ running = Unused
  /\ conversion = Unused
  /\ chain = Unused

\* Invocation i runs to its call of fetch.  The invocations are numbered in
\* the order in which they are made.
Invoke(i) ==
  /\ invocations[i].state = "ready"
  /\ \A j \in 1..(i - 1) : invocations[j].state # "ready"
  /\ \E random \in RandomDraws :
       /\ invocations' =
            [invocations EXCEPT
               ![i].state = "pending", ![i].timestamp = now, ![i].random = random]
       /\ fetchLog' =
            Append(fetchLog,
                   [caller |-> i,
                    call   |-> makeOptimizelyGraphRequest(ConcurrentConfig,
                                 ConcurrentEndpoint, invocations[i].options, now, random)])
  /\ UNCHANGED <<now, hmacCalls, request, env, running, conversion, chain, siteVars>>

\* The promise invocation i returned settles: with a response of any status,
\* or with a rejection.
Settle(i) ==
  /\ invocations[i].state = "pending"
  /\ \E k \in 1..Len(fetchLog) :
       /\ fetchLog[k].caller = i
       /\ \E outcome \in FetchOutcomes(fetchLog[k].call) :
            invocations' =
              [invocations EXCEPT ![i].state = "settled", ![i].outcome = outcome]
  /\ UNCHANGED <<now, hmacCalls, request, fetchLog, env, running, conversion, chain, siteVars>>

NextConcurrent ==
  \/ Tick
  \/ \E i \in CallIds : Invoke(i)
  \/ \E i \in CallIds : Settle(i)

SpecConcurrent == InitConcurrent /\ [][NextConcurrent]_vars

\* The calls of fetch made by invocation i.
FetchesOf(i) == SelectSeq(fetchLog, LAMBDA e : e.caller = i)

\* C8: each invocation of makeOptimizelyGraphRequest issues exactly one
\* request, with the header computed from the clock value and the random
\* bytes that invocation itself read; nothing is issued before it runs, and
\* nothing more once its promise has settled, whatever the outcome and
\* whatever the other invocations do.
C8_OneFreshHeaderOneRequest ==
  \A i \in CallIds :
    /\ invocations[i].state = "ready" => FetchesOf(i) = <<>>
    /\ invocations[i].state \in {"pending", "settled"} =>
         /\ Len(FetchesOf(i)) = 1
         /\ GetProperty(FetchesOf(i)[1].call.init.headers, AuthorizationName) =
              DocumentedHeader(ConcurrentConfig,
                IF invocations[i].options.method = undefined THEN GET
                ELSE invocations[i].options.method,
                PathAndQueryOfHref(FetchesOf(i)[1].call.url),
                IF invocations[i].options.body = undefined THEN <<>>
                ELSE invocations[i].options.body,
                invocations[i].timestamp, invocations[i].random)

\* Two invocations were in flight together, drew at different clock values,
\* and one has settled with an error status while the other is pending.
C8_Witness ==
  \E i, j \in CallIds :
    /\ i # j
    /\ invocations[i].state = "settled"
    /\ invocations[i].outcome.status = 404
    /\ invocations[j].state = "pending"
    /\ invocations[i].timestamp > invocations[j].timestamp
    /\ Len(fetchLog) >= 2
    /\ fetchLog[1].caller = j

-----------------------------------------------------------------------------
(* Numbers and JSON text *)

\* A JavaScript number that is an integer or NaN.
Number(n) == [nan |-> FALSE, value |-> n]
NaN == [nan |-> TRUE, value |-> 0]
undefinedNumber == [undefined |-> TRUE]

\* The digits a string starts with.
RECURSIVE DigitPrefix(_)
DigitPrefix(s) ==
  IF s = <<>> \/ Head(s) \notin Digits THEN <<>>
  ELSE <<Head(s)>> \o DigitPrefix(Tail(s))

\* String.prototype.trim, for strings whose only white space is the blank.
RECURSIVE TrimStart(_)
TrimStart(s) == IF s # <<>> /\ Head(s) = " " THEN TrimStart(Tail(s)) ELSE s

RECURSIVE TrimEnd(_)
TrimEnd(s) ==
  IF s # <<>> /\ s[Len(s)] = " " THEN TrimEnd(SubSeq(s, 1, Len(s) - 1)) ELSE s

Trim(s) == TrimEnd(TrimStart(s))

\* parseInt(s): blanks are skipped, a sign is read, then the digits up to the
\* first character that is not one; NaN when there is no digit.
ParseInt(s) ==
  LET t        == TrimStart(s)
      negative == t # <<>> /\ Head(t) = "-"
      unsigned == IF t # <<>> /\ Head(t) \in {"-", "+"} THEN Tail(t) ELSE t
      digits   == DigitPrefix(unsigned)
  IN  IF digits = <<>> THEN NaN
      ELSE Number(IF negative THEN 0 - ParseDecimal(digits) ELSE ParseDecimal(digits))

Max(a, b) == IF a >= b THEN a ELSE b
Min(a, b) == IF a <= b THEN a ELSE b

\* clampNumber(value, min, max) == Math.max(min, Math.min(max, value)); NaN
\* stays NaN.
clampNumber(value, min, max) ==
  IF value.nan THEN NaN ELSE Number(Max(min, Min(max, value.value)))

\* JSON.stringify of a number: NaN is written null.
JsonNumber(n) ==
  IF n.nan THEN <<"null">>
  ELSE IF n.value < 0 THEN <<"-">> \o ToDecimal(0 - n.value)
  ELSE ToDecimal(n.value)

\* JSON.stringify of a string: the quote and the backslash are escaped.
RECURSIVE JsonEscape(_)
JsonEscape(s) ==
  IF s = <<>> THEN <<>>
  ELSE (IF Head(s) \in {"\"", "\\"} THEN <<"\\", Head(s)>> ELSE <<Head(s)>>)
       \o JsonEscape(Tail(s))

JsonString(s) == <<"\"">> \o JsonEscape(s) \o <<"\"">>

\* JSON.stringify of an object whose values are already JSON text.
RECURSIVE JsonMembers(_)
JsonMembers(entries) ==
  IF entries = <<>> THEN <<>>
  ELSE JsonString(entries[1][1]) \o <<":">> \o entries[1][2]
       \o (IF Len(entries) > 1 THEN <<",">> ELSE <<>>)
       \o JsonMembers(Tail(entries))

JsonObject(entries) == <<"{">> \o JsonMembers(entries) \o <<"}">>

-----------------------------------------------------------------------------
(* utils/optimizely-graph-utils.ts: makeGraphQLRequest *)

ContentV2 == <<"/", "c", "o", "n", "t", "e", "n", "t", "/", "v", "2">>
QueryName == <<"q", "u", "e", "r", "y">>
VariablesName == <<"v", "a", "r", "i", "a", "b", "l", "e", "s">>
SearchTermName == <<"s", "e", "a", "r", "c", "h", "T", "e", "r", "m">>
LimitName == <<"l", "i", "m", "i", "t">>

\* The text of the search query, and the two parts of the text of the query
\* of recent content that surround its where clause.
CONTENT_SEARCH_QUERY == <<"query SearchContent($searchTerm: String!, $limit: Int) { ... }">>
RecentContentHead == <<"query RecentContent($limit: Int!) { Content( limit: $limit orderBy: { Modified: DESC } ">>
RecentContentTail == <<" ) { items { ... } total } }">>

\* getRecentContentQuery(contentType)
getRecentContentQuery(contentType) ==
  RecentContentHead
    \o (IF Truthy(contentType)
        THEN <<"where: { ContentType: { eq: ">> \o <<"\"">> \o contentType
               \o <<"\"">> \o <<" } }">>
        ELSE <<>>)
    \o RecentContentTail

\* The mutant: the GraphQL request leaves the content type to the default.
makeGraphQLRequestDefaultType(config, query, variables, timestamp, random) ==
  makeOptimizelyGraphRequest(config, ContentV2,
    [method |-> POST,
     body |-> JsonObject(<< <<QueryName, JsonString(query)>>,
                            <<VariablesName, JsonObject(variables)>> >>),
     headers |-> undefinedObject,
     queryParams |-> undefinedObject],
    timestamp, random)

\* makeGraphQLRequest(config, query, variables): the call of fetch it makes.
\* The variables are the members of the object, their values JSON text.
makeGraphQLRequest(config, query, variables, timestamp, random) ==
  makeOptimizelyGraphRequest(config, ContentV2,
    [method |-> POST,
     body |-> JsonObject(<< <<QueryName, JsonString(query)>>,
                            <<VariablesName, JsonObject(variables)>> >>),
     headers |-> << <<ContentTypeName, ApplicationJson>> >>,
     queryParams |-> undefinedObject],
    timestamp, random)

-----------------------------------------------------------------------------
(* utils/optimizely-graph-utils.ts: makeHmacApiRequest *)

SynonymsFragment == <<"/", "s", "y", "n", "o", "n", "y", "m", "s">>

\* A body that is absent, a string, or an object given by its JSON text.
NoBody == [type |-> "undefined", value |-> <<>>]
StringBody(s) == [type |-> "string", value |-> s]
ObjectBody(json) == [type |-> "object", value |-> json]

\* typeof body === 'string' ? body : JSON.stringify(body)
RequestBodyOf(body) == IF body.type = "undefined" THEN undefined ELSE body.value

\* makeHmacApiRequest(endpoint, options) once the configuration is read: the
\* call of fetch it makes.
makeHmacApiRequest(config, endpoint, options, timestamp, random) ==
  LET method      == IF options.method = undefined THEN GET ELSE options.method
      headers     == IF options.headers = undefinedObject THEN <<>> ELSE options.headers
      queryParams == IF options.queryParams = undefinedObject THEN <<>>
                     ELSE options.queryParams
      requestBody == RequestBodyOf(options.body)
      contentType == IF Includes(endpoint, SynonymsFragment) THEN TextPlain
                     ELSE ApplicationJson
  IN  makeOptimizelyGraphRequest(config, endpoint,
        [method |-> method,
         body |-> IF method # GET THEN requestBody ELSE undefined,
         headers |-> Spread(<< <<ContentTypeName, contentType>> >>, headers),
         queryParams |-> queryParams],
        timestamp, random)

-----------------------------------------------------------------------------
(* utils/optimizely-graph-utils.ts: transformContentItem *)

\* A field that holds a string, a list of strings, or nothing.
NoField == [kind |-> "undefined", value |-> <<>>]
StringField(s) == [kind |-> "string", value |-> s]
ListField(l) == [kind |-> "list", value |-> l]

\* field?.[0]: the first element of a list, the first character of a
\* string, undefined for an empty or absent one.
FirstOf(field) ==
  IF field.kind = "undefined" \/ field.value = <<>> THEN undefined
  ELSE IF field.kind = "list" THEN field.value[1]
  ELSE <<field.value[1]>>

\* The nested objects of a raw item, absent or present.
NoLanguage == [present |-> FALSE, Name |-> undefined]
NoContentLink == [present |-> FALSE, GuidValue |-> undefined]
NoUrl == [present |-> FALSE, base |-> undefined, default |-> undefined]
NoMetadata ==
  [present |-> FALSE, key |-> undefined, displayName |-> undefined,
   locale |-> undefined, types |-> NoField, url |-> NoUrl]
NoRanking == [present |-> FALSE, semantic |-> undefined]

\* The raw item with no property at all.
EmptyItem ==
  [_id |-> undefined, Name |-> undefined, PageName |-> undefined,
   ContentType |-> NoField, Status |-> undefined, Url |-> undefined,
   Modified |-> undefined, Language |-> NoLanguage,
   ContentLink |-> NoContentLink, _metadata |-> NoMetadata,
   _ranking |-> NoRanking]

\* new URL(path, base).href for an absolute path: it throws when the base has
\* no scheme.
HasScheme(base) == Includes(base, <<":", "/", "/">>)
HrefOf(path, base) == OriginOf(base) \o path

\* The mutant: a base that cannot be resolved against leaves no url.
transformContentItemUrlLost(item) ==
  LET urlDefault == item._metadata.url.default
      urlBase    == item._metadata.url.base
      plainUrl   == OrElse(item.Url, urlDefault)
      finalUrl   == IF Truthy(urlBase) /\ Truthy(urlDefault)
                    THEN IF HasScheme(urlBase) THEN HrefOf(urlDefault, urlBase)
                         ELSE undefined
                    ELSE plainUrl
  IN  [guid        |-> OrElse(item._metadata.key, OrElse(item._id, item.ContentLink.GuidValue)),
       name        |-> OrElse(item.Name, OrElse(item.PageName,
                         OrElse(item._metadata.displayName, <<"Untitled">>))),
       contentType |-> OrElse(FirstOf(item.ContentType),
                         OrElse(FirstOf(item._metadata.types), <<"Unknown">>)),
       status      |-> item.Status,
       language    |-> OrElse(item.Language.Name,
                         OrElse(item._metadata.locale, <<"Unknown">>)),
       url         |-> finalUrl,
       score       |-> item._ranking.semantic,
       modified    |-> item.Modified,
       id          |-> item._id]

\* The mutant: the identifier prefers the top-level id to the metadata key.
transformContentItemIdFirst(item) ==
  LET urlDefault == item._metadata.url.default
      urlBase    == item._metadata.url.base
      plainUrl   == OrElse(item.Url, urlDefault)
      finalUrl   == IF Truthy(urlBase) /\ Truthy(urlDefault) /\ HasScheme(urlBase)
                    THEN HrefOf(urlDefault, urlBase)
                    ELSE plainUrl
  IN  [guid        |-> OrElse(item._id, OrElse(item._metadata.key, item.ContentLink.GuidValue)),
       name        |-> OrElse(item.Name, OrElse(item.PageName,
                         OrElse(item._metadata.displayName, <<"Untitled">>))),
       contentType |-> OrElse(FirstOf(item.ContentType),
                         OrElse(FirstOf(item._metadata.types), <<"Unknown">>)),
       status      |-> item.Status,
       language    |-> OrElse(item.Language.Name,
                         OrElse(item._metadata.locale, <<"Unknown">>)),
       url         |-> finalUrl,
       score       |-> item._ranking.semantic,
       modified    |-> item.Modified,
       id          |-> item._id]

\* transformContentItem(item).  a || b is b when a is undefined or empty; a
\* property of an absent nested object is undefined.
transformContentItem(item) ==
  LET urlDefault == item._metadata.url.default
      urlBase    == item._metadata.url.base
      plainUrl   == OrElse(item.Url, urlDefault)
      finalUrl   == IF Truthy(urlBase) /\ Truthy(urlDefault) /\ HasScheme(urlBase)
                    THEN HrefOf(urlDefault, urlBase)
                    ELSE plainUrl
  IN  [guid        |-> OrElse(item._metadata.key, OrElse(item._id, item.ContentLink.GuidValue)),
       name        |-> OrElse(item.Name, OrElse(item.PageName,
                         OrElse(item._metadata.displayName, <<"Untitled">>))),
       contentType |-> OrElse(FirstOf(item.ContentType),
                         OrElse(FirstOf(item._metadata.types), <<"Unknown">>)),
       status      |-> item.Status,
       language    |-> OrElse(item.Language.Name,
                         OrElse(item._metadata.locale, <<"Unknown">>)),
       url         |-> finalUrl,
       score       |-> item._ranking.semantic,
       modified    |-> item.Modified,
       id          |-> item._id]

-----------------------------------------------------------------------------
(* utils/optimizely-graph-utils.ts: searchContent *)

\* The parsed JSON of a GraphQL answer: its errors, absent or a list of
\* messages, and under data the two collections, each absent or with items.
NoErrors == [present |-> FALSE, messages |-> <<>>]
Errors(messages) == [present |-> TRUE, messages |-> messages]
NoCollection == [present |-> FALSE, hasItems |-> FALSE, items |-> <<>>]
Collection(items) == [present |-> TRUE, hasItems |-> TRUE, items |-> items]
CollectionWithoutItems == [present |-> TRUE, hasItems |-> FALSE, items |-> <<>>]
NoData == [present |-> FALSE, Content |-> NoCollection, _Content |-> NoCollection]
Data(content, underscoreContent) ==
  [present |-> TRUE, Content |-> content, _Content |-> underscoreContent]
GraphResult(errors, data) == [errors |-> errors, data |-> data]

\* array.join(', ')
RECURSIVE Join(_, _)
Join(list, separator) ==
  IF list = <<>> THEN <<>>
  ELSE IF Len(list) = 1 THEN list[1]
  ELSE list[1] \o separator \o Join(Tail(list), separator)

\* items.map(transformContentItem).filter(item => item.guid)
RECURSIVE TransformAndFilter(_)
TransformAndFilter(items) ==
  IF items = <<>> THEN <<>>
  ELSE LET item == transformContentItem(Head(items))
       IN  (IF Truthy(item.guid) THEN <<item>> ELSE <<>>)
           \o TransformAndFilter(Tail(items))

\* The mutant: the list under _Content is preferred to the one under Content.
RawItemsOfUnderscoreFirst(result) ==
  IF result.data.present /\ result.data._Content.hasItems
  THEN result.data._Content.items
  ELSE IF result.data.present /\ result.data.Content.hasItems
  THEN result.data.Content.items
  ELSE <<>>

\* result.data?.Content?.items || result.data?._Content?.items || []
RawItemsOf(result) ==
  IF result.data.present /\ result.data.Content.hasItems
  THEN result.data.Content.items
  ELSE IF result.data.present /\ result.data._Content.hasItems
  THEN result.data._Content.items
  ELSE <<>>

SearchFailed(message) == [items |-> <<>>, error |-> message]

\* The mutant: the message of a rejected request is lost.
searchContentResultLosesMessage(outcome) ==
  IF outcome.type # "response" THEN SearchFailed(undefined)
  ELSE IF ~outcome.body.readable THEN SearchFailed(TerminatedMessage)
  ELSE IF ~ResponseOk(outcome)
  THEN SearchFailed(<<"GraphQL query failed: ">> \o ToDecimal(outcome.status)
                      \o <<" ">> \o outcome.statusText \o <<" ", "-", " ">>
                      \o outcome.body.text)
  ELSE IF ~outcome.body.json.valid THEN SearchFailed(JsonSyntaxMessage)
  ELSE IF outcome.body.json.value.errors.present
  THEN SearchFailed(<<"GraphQL errors: ">>
                      \o Join(outcome.body.json.value.errors.messages, <<",", " ">>))
  ELSE [items |-> TransformAndFilter(RawItemsOf(outcome.body.json.value)),
        error |-> undefined]

\* The mutant: the items of an answer that has errors are returned with the
\* error.
searchContentResultPartial(outcome) ==
  IF outcome.type # "response" THEN SearchFailed(outcome.message)
  ELSE IF ~outcome.body.readable THEN SearchFailed(TerminatedMessage)
  ELSE IF ~ResponseOk(outcome)
  THEN SearchFailed(<<"GraphQL query failed: ">> \o ToDecimal(outcome.status)
                      \o <<" ">> \o outcome.statusText \o <<" ", "-", " ">>
                      \o outcome.body.text)
  ELSE IF ~outcome.body.json.valid THEN SearchFailed(JsonSyntaxMessage)
  ELSE [items |-> TransformAndFilter(RawItemsOf(outcome.body.json.value)),
        error |-> IF outcome.body.json.value.errors.present
                  THEN <<"GraphQL errors: ">>
                         \o Join(outcome.body.json.value.errors.messages, <<",", " ">>)
                  ELSE undefined]

\* searchContent from its await on: the value it returns for what became of
\* the GraphQL request.  Every rejection is caught.
searchContentResult(outcome) ==
  IF outcome.type # "response" THEN SearchFailed(outcome.message)
  ELSE IF ~outcome.body.readable THEN SearchFailed(TerminatedMessage)
  ELSE IF ~ResponseOk(outcome)
  THEN SearchFailed(<<"GraphQL query failed: ">> \o ToDecimal(outcome.status)
                      \o <<" ">> \o outcome.statusText \o <<" ", "-", " ">>
                      \o outcome.body.text)
  ELSE IF ~outcome.body.json.valid THEN SearchFailed(JsonSyntaxMessage)
  ELSE IF outcome.body.json.value.errors.present
  THEN SearchFailed(<<"GraphQL errors: ">>
                      \o Join(outcome.body.json.value.errors.messages, <<",", " ">>))
  ELSE [items |-> TransformAndFilter(RawItemsOf(outcome.body.json.value)),
        error |-> undefined]

-----------------------------------------------------------------------------
(* The helpers and the admin routes: one call, from its start to its end,
   against an environment fixed at start-up *)

AppKeyOne == <<"a", "k", "1">>

\* import.meta.env: each variable is absent, empty or set.
Environments ==
  [OPTIMIZELY_GRAPH_GATEWAY_URL : {undefined, GatewayWithPath},
   OPTIMIZELY_GRAPH_APP_KEY : {undefined, <<>>, AppKeyOne},
   OPTIMIZELY_GRAPH_SECRET : {undefined, <<>>, SecretABC}]

\* The configurations a caller hands to uploadSynonyms itself.
UploadConfigs ==
  { [gatewayUrl |-> GatewayDefault, appKey |-> AppKeyOne, secret |-> SecretABC] }

SynonymTexts == { <<>>, <<"a", ",", "b">> }
EnglishRouting == <<"e", "n">>

UploadOptions ==
  { [synonymSlot |-> undefined, languageRouting |-> undefined],
    [synonymSlot |-> <<"2">>, languageRouting |-> EnglishRouting],
    [synonymSlot |-> <<"1">>, languageRouting |-> <<"e", "n", "&", "f", "r">>] }

\* The JSON bodies posted to the synonyms route; request.json() rejects the
\* one that is not JSON.
NotJson == [valid |-> FALSE]
SynonymsBodies ==
  { NotJson,
    [valid |-> TRUE, synonyms |-> undefined, synonymSlot |-> undefined,
     languageRouting |-> undefined],
    [valid |-> TRUE, synonyms |-> <<>>, synonymSlot |-> <<"1">>,
     languageRouting |-> undefined],
    [valid |-> TRUE, synonyms |-> <<"a", ",", "b">>, synonymSlot |-> <<"2">>,
     languageRouting |-> EnglishRouting] }

PinnedCollections ==
  <<"/", "a", "p", "i", "/", "p", "i", "n", "n", "e", "d", "/", "c", "o", "l", "l",
    "e", "c", "t", "i", "o", "n", "s">>
DELETE == <<"D", "E", "L", "E", "T", "E">>

HmacEndpoints == { PinnedCollections, SynonymsEndpoint }
HmacOptions ==
  { [method |-> undefined, body |-> NoBody, headers |-> undefinedObject,
     queryParams |-> undefinedObject],
    [method |-> GET, body |-> StringBody(<<"p", "c">>), headers |-> undefinedObject,
     queryParams |-> << << <<"i", "d">>, <<"7">> >> >>],
    [method |-> POST, body |-> ObjectBody(<<"{", "}">>), headers |-> undefinedObject,
     queryParams |-> undefinedObject],
    [method |-> PUT, body |-> StringBody(<<"a", ",", "b">>),
     headers |-> << <<ContentTypeName, TextPlain>> >>, queryParams |-> undefinedObject],
    [method |-> DELETE, body |-> NoBody, headers |-> undefinedObject,
     queryParams |-> undefinedObject],
    [method |-> HEAD, body |-> ObjectBody(<<"{", "}">>), headers |-> undefinedObject,
     queryParams |-> undefinedObject] }

\* The JSON bodies posted to the content-search route.
SearchBodies ==
  { NotJson,
    [valid |-> TRUE, query |-> undefined, limit |-> undefinedNumber],
    [valid |-> TRUE, query |-> <<" ">>, limit |-> Number(5)],
    [valid |-> TRUE, query |-> <<" ", "a", "\"", "b", " ">>, limit |-> undefinedNumber],
    [valid |-> TRUE, query |-> <<"a">>, limit |-> Number(0)],
    [valid |-> TRUE, query |-> <<"a">>, limit |-> Number(99)] }

\* The query parameters of a GET of the content-search route; a parameter
\* that is absent reads as undefined.
PageType == <<"P", "a", "g", "e">>
RecentParams ==
  { [limit |-> undefined, contentType |-> undefined],
    [limit |-> <<"5">>, contentType |-> PageType],
    [limit |-> <<"a", "b", "c">>, contentType |-> undefined],
    [limit |-> <<"9", "9">>, contentType |-> <<>>],
    [limit |-> <<"-", "3">>, contentType |-> undefined] }

\* Raw items as the two queries return them.
SiteBase == <<"h", "t", "t", "p", "s", ":", "/", "/", "s", ".", "i", "o">>
PagePath == <<"/", "e", "n", "/", "p">>
MetadataItem ==
  [EmptyItem EXCEPT
     !._id = <<"i", "1">>, !.Url = <<"/", "m">>,
     !._metadata = [present |-> TRUE, key |-> <<"k", "1">>,
                    displayName |-> <<"H", "o", "m", "e">>,
                    locale |-> EnglishRouting,
                    types |-> ListField(<< PageType, <<"_", "C">> >>),
                    url |-> [present |-> TRUE, base |-> SiteBase, default |-> PagePath]],
     !._ranking = [present |-> TRUE, semantic |-> <<"0", ".", "5">>]]
LegacyItem ==
  [EmptyItem EXCEPT
     !._id = <<"i", "2">>, !.Name = <<"N">>, !.ContentType = ListField(<<PageType>>),
     !.Status = <<"P", "u", "b">>, !.Url = <<"/", "o", "l", "d">>,
     !.Modified = <<"2", "0", "2", "4">>,
     !.Language = [present |-> TRUE, Name |-> <<"s", "v">>],
     !.ContentLink = [present |-> TRUE, GuidValue |-> <<"g", "2">>]]
LinkOnlyItem ==
  [EmptyItem EXCEPT
     !.PageName = <<"P", "N">>, !.ContentType = StringField(PageType),
     !.ContentLink = [present |-> TRUE, GuidValue |-> <<"g", "3">>],
     !._metadata = [NoMetadata EXCEPT
                      !.present = TRUE,
                      !.url = [present |-> TRUE, base |-> <<"s", ".", "i", "o">>,
                               default |-> PagePath]]]
AnonymousItem == [EmptyItem EXCEPT !.Name = <<"X">>, !._id = <<>>]

\* What becomes of the call of fetch of a search: a rejection, a response
\* that is not a success, a success that is not JSON, or a GraphQL answer.
SearchOutcomes(call) ==
  IF FetchRefuses(call) THEN { Rejection("TypeError", BodyRefusedMessage) }
  ELSE { Rejection("NetworkError", FetchFailedMessage),
         HttpResponse(404, NotFoundText, TextBody(BoomText)),
         HttpResponse(500, <<>>, UnreadableBody(BoomText)),
         HttpResponse(200, <<"O", "K">>, TextBody(BoomText)),
         HttpResponse(200, <<"O", "K">>,
           JsonBody(GraphResult(Errors(<< <<"e", "1">>, <<"e", "2">> >>),
                                Data(Collection(<<LegacyItem>>), NoCollection)))),
         HttpResponse(200, <<"O", "K">>, JsonBody(GraphResult(Errors(<<>>), NoData))),
         HttpResponse(200, <<"O", "K">>, JsonBody(GraphResult(NoErrors, NoData))),
         HttpResponse(200, <<"O", "K">>,
           JsonBody(GraphResult(NoErrors,
             Data(Collection(<<LegacyItem, AnonymousItem, LinkOnlyItem>>),
                  Collection(<<MetadataItem>>))))),
         HttpResponse(200, <<"O", "K">>,
           JsonBody(GraphResult(NoErrors,
             Data(CollectionWithoutItems,
                  Collection(<<MetadataItem, EmptyItem, LegacyItem>>))))),
         HttpResponse(201, <<>>,
           JsonBody(GraphResult(NoErrors, Data(Collection(<<>>),
                                               Collection(<<MetadataItem>>))))) }

\* No call is in progress.
Idle ==
  [kind |-> "none", state |-> "idle", args |-> <<>>, config |-> NoConfig,
   timestamp |-> 0, random |-> <<>>, fetched |-> FALSE, fetch |-> NoFetch,
   outcome |-> NotSettled, result |-> <<>>]

\* The call has called fetch and awaits it.
Pending(kind, args, config, fetch, timestamp, random) ==
  [kind |-> kind, state |-> "awaiting", args |-> args, config |-> config,
   timestamp |-> timestamp, random |-> random, fetched |-> TRUE, fetch |-> fetch,
   outcome |-> NotSettled, result |-> <<>>]

\* The call has ended without calling fetch.
EndedEarly(kind, args, config, result) ==
  [kind |-> kind, state |-> "done", args |-> args, config |-> config,
   timestamp |-> 0, random |-> <<>>, fetched |-> FALSE, fetch |-> NoFetch,
   outcome |-> NotSettled, result |-> result]

\* new Response(JSON.stringify(body), { status })
RouteResponse(status, body) == [status |-> status, body |-> body]

\* createSuccessResponse(data, message): an array is truthy even when empty.
createSuccessResponse(data, message) ==
  RouteResponse(200, [success |-> TRUE, message |-> message, data |-> data])

\* createErrorResponse(error, status)
createErrorResponse(error, status) ==
  RouteResponse(status, [success |-> FALSE, error |-> error])

\* handleApiError(error) for an Error with the message given.
handleApiError(message) == createErrorResponse(message, 500)

\* The catch block of the synonyms route.
SynonymsRouteCaught(message) ==
  RouteResponse(500, [error |-> <<"Internal server error">>, details |-> message])

InitHelpers ==
  /\ SiteUnused
  /\ now = EpochStart
  /\ env \in Environments
  /\ running = Idle
  /\ hmacCalls = Unused
  /\ request = Unused
  /\ invocations = Unused
  /\ fetchLog = Unused
  /\ conversion = Unused
  /\ chain = Unused

\* uploadSynonyms(config, synonyms, options) up to its await.
CallUploadSynonyms ==
  /\ running.state = "idle"
  /\ \E config \in UploadConfigs, synonyms \in SynonymTexts,
        options \in UploadOptions, random \in RandomDraws :
       running' = Pending("uploadSynonyms",
                       [synonyms |-> synonyms, options |-> options], config,
                       uploadSynonymsRequest(config, synonyms, options, now, random),
                       now, random)
  /\ UNCHANGED <<now, env, hmacCalls, request, invocations, fetchLog, conversion, chain, siteVars>>

\* The request of uploadSynonyms settles and the function returns.
UploadSynonymsReturns ==
  /\ running.state = "awaiting"
  /\ running.kind = "uploadSynonyms"
  /\ \E outcome \in TextOutcomes(running.fetch) :
       running' = [running EXCEPT !.state = "done", !.outcome = outcome,
                            !.result = uploadSynonymsResult(running.args.options, outcome)]
  /\ UNCHANGED <<now, env, hmacCalls, request, invocations, fetchLog, conversion, chain, siteVars>>

\* POST of the synonyms route up to the await of uploadSynonyms, or to its
\* end when the body is not JSON or the configuration is refused.
PostSynonyms ==
  /\ running.state = "idle"
  /\ \E body \in SynonymsBodies, random \in RandomDraws :
       LET config == getOptimizelyGraphConfig(env)
           options == [synonymSlot |-> IF body.synonymSlot = undefined THEN <<"1">>
                                       ELSE body.synonymSlot,
                       languageRouting |-> IF body.languageRouting = undefined
                                           THEN Standard ELSE body.languageRouting]
           synonyms == OrElse(body.synonyms, <<>>)
       IN  running' =
             IF ~body.valid
             THEN EndedEarly("synonymsRoute", body, NoConfig,
                             SynonymsRouteCaught(JsonSyntaxMessage))
             ELSE IF config.threw
             THEN EndedEarly("synonymsRoute", body, NoConfig,
                             SynonymsRouteCaught(config.message))
             ELSE Pending("synonymsRoute",
                          [synonyms |-> synonyms, options |-> options], config.value,
                          uploadSynonymsRequest(config.value, synonyms, options,
                                                now, random),
                          now, random)
  /\ UNCHANGED <<now, env, hmacCalls, request, invocations, fetchLog, conversion, chain, siteVars>>

\* uploadSynonyms returns to the synonyms route, which answers.
SynonymsRouteAnswers ==
  /\ running.state = "awaiting"
  /\ running.kind = "synonymsRoute"
  /\ \E outcome \in TextOutcomes(running.fetch) :
       LET result == uploadSynonymsResult(running.args.options, outcome)
       IN  running' = [running EXCEPT
                      !.state = "done", !.outcome = outcome,
                      !.result =
                        IF result.success
                        THEN RouteResponse(200, [success |-> TRUE,
                                                 message |-> result.message])
                        ELSE RouteResponse(400, [error |-> result.message,
                                                 details |-> result.error])]
  /\ UNCHANGED <<now, env, hmacCalls, request, invocations, fetchLog, conversion, chain, siteVars>>

\* makeHmacApiRequest(endpoint, options) up to its await, or to the throw of
\* getOptimizelyGraphConfig.
CallMakeHmacApiRequest ==
  /\ running.state = "idle"
  /\ \E endpoint \in HmacEndpoints, options \in HmacOptions, random \in RandomDraws :
       LET config == getOptimizelyGraphConfig(env)
           args == [endpoint |-> endpoint, options |-> options]
       IN  running' =
             IF config.threw
             THEN EndedEarly("makeHmacApiRequest", args, NoConfig,
                             [threw |-> TRUE, message |-> config.message])
             ELSE Pending("makeHmacApiRequest", args, config.value,
                          makeHmacApiRequest(config.value, endpoint, options,
                                             now, random),
                          now, random)
  /\ UNCHANGED <<now, env, hmacCalls, request, invocations, fetchLog, conversion, chain, siteVars>>

\* The request of makeHmacApiRequest settles: the promise resolves with the
\* response or rejects with the error of fetch.
MakeHmacApiRequestSettles ==
  /\ running.state = "awaiting"
  /\ running.kind = "makeHmacApiRequest"
  /\ \E outcome \in TextOutcomes(running.fetch) :
       running' = [running EXCEPT
                  !.state = "done", !.outcome = outcome,
                  !.result = [threw |-> outcome.type # "response",
                              message |-> outcome.message]]
  /\ UNCHANGED <<now, env, hmacCalls, request, invocations, fetchLog, conversion, chain, siteVars>>

\* POST of the content-search route up to the await of searchContent, or to
\* its end when the body is not JSON, the query is blank or the
\* configuration is refused.
PostContentSearch ==
  /\ running.state = "idle"
  /\ \E body \in SearchBodies, random \in RandomDraws :
       LET config == getOptimizelyGraphConfig(env)
           limit == IF body.limit = undefinedNumber THEN Number(10) ELSE body.limit
           clampedLimit == clampNumber(limit, 1, 50)
           variables == << <<SearchTermName, JsonString(Trim(body.query))>>,
                           <<LimitName, JsonNumber(clampedLimit)>> >>
       IN  running' =
             IF ~body.valid
             THEN EndedEarly("contentSearchPost", body, NoConfig,
                             handleApiError(JsonSyntaxMessage))
             ELSE IF ~Truthy(body.query) \/ Len(Trim(body.query)) = 0
             THEN EndedEarly("contentSearchPost", body, NoConfig,
                             createErrorResponse(<<"Search query is required">>, 400))
             ELSE IF config.threw
             THEN EndedEarly("contentSearchPost", body, NoConfig,
                             handleApiError(config.message))
             ELSE Pending("contentSearchPost", body, config.value,
                          makeGraphQLRequest(config.value, CONTENT_SEARCH_QUERY,
                                             variables, now, random),
                          now, random)
  /\ UNCHANGED <<now, env, hmacCalls, request, invocations, fetchLog, conversion, chain, siteVars>>

\* GET of the content-search route up to the await of searchContent, or to
\* its end when the configuration is refused.
GetContentSearch ==
  /\ running.state = "idle"
  /\ \E params \in RecentParams, random \in RandomDraws :
       LET config == getOptimizelyGraphConfig(env)
           limit == ParseInt(OrElse(params.limit, <<"2", "0">>))
           contentType == OrElse(params.contentType, <<>>)
           clampedLimit == clampNumber(limit, 1, 50)
           variables == << <<LimitName, JsonNumber(clampedLimit)>> >>
       IN  running' =
             IF config.threw
             THEN EndedEarly("contentSearchGet", params, NoConfig,
                             handleApiError(config.message))
             ELSE Pending("contentSearchGet", params, config.value,
                          makeGraphQLRequest(config.value,
                                             getRecentContentQuery(contentType),
                                             variables, now, random),
                          now, random)
  /\ UNCHANGED <<now, env, hmacCalls, request, invocations, fetchLog, conversion, chain, siteVars>>

\* searchContent returns to the content-search route, which answers.
ContentSearchAnswers ==
  /\ running.state = "awaiting"
  /\ running.kind \in {"contentSearchPost", "contentSearchGet"}
  /\ \E outcome \in SearchOutcomes(running.fetch) :
       LET found == searchContentResult(outcome)
           count == ToDecimal(Len(found.items))
       IN  running' = [running EXCEPT
                      !.state = "done", !.outcome = outcome,
                      !.result =
                        IF Truthy(found.error)
                        THEN createErrorResponse(found.error, 500)
                        ELSE createSuccessResponse(found.items,
                               IF running.kind = "contentSearchPost"
                               THEN <<"Found ">> \o count \o <<" content items">>
                               ELSE <<"Found ">> \o count
                                       \o <<" recent content items">>)]
  /\ UNCHANGED <<now, env, hmacCalls, request, invocations, fetchLog, conversion, chain, siteVars>>

\* The queries and variables a caller hands to searchContent itself.
SearchCalls ==
  { [query |-> CONTENT_SEARCH_QUERY,
     variables |-> << <<SearchTermName, JsonString(<<"a">>)>>,
                      <<LimitName, JsonNumber(Number(10))>> >>],
    [query |-> getRecentContentQuery(PageType),
     variables |-> << <<LimitName, JsonNumber(Number(20))>> >>] }

\* searchContent(config, query, variables) up to its await.
CallSearchContent ==
  /\ running.state = "idle"
  /\ \E config \in UploadConfigs, args \in SearchCalls, random \in RandomDraws :
       running' = Pending("searchContent", args, config,
                          makeGraphQLRequest(config, args.query, args.variables,
                                             now, random),
                          now, random)
  /\ UNCHANGED <<now, env, hmacCalls, request, invocations, fetchLog, conversion, chain, siteVars>>

\* The request of searchContent settles and the function returns.
SearchContentReturns ==
  /\ running.state = "awaiting"
  /\ running.kind = "searchContent"
  /\ \E outcome \in SearchOutcomes(running.fetch) :
       running' = [running EXCEPT !.state = "done", !.outcome = outcome,
                                  !.result = searchContentResult(outcome)]
  /\ UNCHANGED <<now, env, hmacCalls, request, invocations, fetchLog, conversion, chain, siteVars>>

Next ==
  \/ Tick
  \/ CallUploadSynonyms
  \/ UploadSynonymsReturns
  \/ PostSynonyms
  \/ SynonymsRouteAnswers
  \/ CallMakeHmacApiRequest
  \/ MakeHmacApiRequestSettles
  \/ PostContentSearch
  \/ GetContentSearch
  \/ ContentSearchAnswers
  \/ CallSearchContent
  \/ SearchContentReturns

Spec == InitHelpers /\ [][Next]_vars

-----------------------------------------------------------------------------
(* Properties of the helpers and the routes *)

\* The key or the secret is absent or empty in the environment.
CredentialsMissing ==
  \/ ~Truthy(env.OPTIMIZELY_GRAPH_APP_KEY)
  \/ ~Truthy(env.OPTIMIZELY_GRAPH_SECRET)

\* The calls that read their configuration from the environment.
ReadsEnvironment ==
  running.kind \in {"makeHmacApiRequest", "synonymsRoute", "contentSearchPost",
                    "contentSearchGet"}

\* C7: when the application key or the secret is absent or empty,
\* getOptimizelyGraphConfig throws, and makeHmacApiRequest, the synonyms
\* route and the content-search routes then never call fetch; a
\* configuration is returned, and used for a request, only with both the
\* key and the secret non-empty.
C7_NoRequestWithoutCredentials ==
  /\ CredentialsMissing => getOptimizelyGraphConfig(env).threw
  /\ ~getOptimizelyGraphConfig(env).threw =>
       /\ Truthy(getOptimizelyGraphConfig(env).value.appKey)
       /\ Truthy(getOptimizelyGraphConfig(env).value.secret)
  /\ (CredentialsMissing /\ ReadsEnvironment) =>
       /\ running.state = "done"
       /\ ~running.fetched
       /\ running.fetch = NoFetch
  /\ (ReadsEnvironment /\ running.fetched) =>
       /\ Truthy(running.config.appKey)
       /\ Truthy(running.config.secret)

\* The key is set and the secret is empty, and the synonyms route has
\* answered a valid body with the error of the configuration.
C7_Witness ==
  /\ env.OPTIMIZELY_GRAPH_APP_KEY = AppKeyOne
  /\ env.OPTIMIZELY_GRAPH_SECRET = <<>>
  /\ running.kind = "synonymsRoute"
  /\ running.state = "done"
  /\ running.args.valid
  /\ running.result.status = 500
  /\ running.result.body.details = MissingEnvMessage

\* uploadSynonyms, called by itself, has returned.
UploadReturned == running.kind = "uploadSynonyms" /\ running.state = "done"

\* The backend answered, with a status in the 2xx range or outside it.
Answered2xx == running.outcome.type = "response" /\ running.outcome.status \in 200..299
AnsweredNot2xx ==
  running.outcome.type = "response" /\ running.outcome.status \notin 200..299

\* C10 as stated: uploadSynonyms returns success = true if and only if the
\* status of the backend is in the 2xx range; for any other status it
\* returns success = false with an error that contains the status code and
\* the text of the body of the response.
C10_SuccessIff2xxErrorHasStatusAndBody ==
  UploadReturned =>
    /\ running.result.success <=> Answered2xx
    /\ AnsweredNot2xx =>
         /\ ~running.result.success
         /\ Includes(running.result.error, ToDecimal(running.outcome.status))
         /\ Includes(running.result.error, running.outcome.body.text)

\* C10 amended: uploadSynonyms returns success = true if and only if the
\* status of the backend is in the 2xx range; for any other status it
\* returns success = false, with an error that contains the status code and
\* the text of the body when the body can be read, and with the message of
\* the failure to read it when it cannot.
C10_SuccessIff2xxErrorHasStatusAndReadableBody ==
  UploadReturned =>
    /\ running.result.success <=> Answered2xx
    /\ AnsweredNot2xx =>
         /\ ~running.result.success
         /\ running.outcome.body.readable =>
              /\ Includes(running.result.error, ToDecimal(running.outcome.status))
              /\ Includes(running.result.error, running.outcome.body.text)
         /\ ~running.outcome.body.readable =>
              running.result.error = TerminatedMessage

\* uploadSynonyms has returned the failure of a 404 whose body was read.
C10_Witness ==
  /\ UploadReturned
  /\ running.outcome.type = "response"
  /\ running.outcome.status = 404
  /\ running.outcome.body.readable
  /\ running.outcome.body.text = BoomText
  /\ ~running.result.success
  /\ running.result.message = <<"Failed to upload synonyms">>

-----------------------------------------------------------------------------
(* Properties of uploadSynonyms and searchContent called by themselves *)

\* searchContent, called by itself, has returned.
SearchReturned == running.kind = "searchContent" /\ running.state = "done"

\* The request was rejected: no response came.
Rejected == running.outcome.type \in {"NetworkError", "TypeError"}

\* C11: uploadSynonyms and searchContent do not throw when the request is
\* rejected for a network or transport failure: uploadSynonyms returns
\* success = false with the message of the rejection as its error, and
\* searchContent returns no items with the message of the rejection as its
\* error.
C11_TransportFailureIsReturned ==
  /\ (UploadReturned /\ Rejected) =>
       /\ ~running.result.success
       /\ Truthy(running.result.error)
       /\ running.result.error = running.outcome.message
  /\ (SearchReturned /\ Rejected) =>
       /\ running.result.items = <<>>
       /\ Truthy(running.result.error)
       /\ running.result.error = running.outcome.message

\* searchContent has returned the failure of a request that was rejected.
C11_Witness ==
  /\ SearchReturned
  /\ running.outcome.type = "NetworkError"
  /\ running.result.items = <<>>
  /\ running.result.error = FetchFailedMessage

\* The path and query that the documentation gives an upload: the two
\* parameters in their order, their values as given.
DocumentedUploadPath(slot, routing) ==
  SynonymsEndpoint \o <<"?">> \o SynonymSlotName \o <<"=">> \o slot
    \o <<"&">> \o LanguageRoutingName \o <<"=">> \o routing

\* The request of an upload is one PUT of the text, signed.
UploadIsSignedPut ==
  /\ running.fetched
  /\ running.fetch.init.method = PUT
  /\ running.fetch.init.body = running.args.synonyms
  /\ LET authorization == WireHeader(running.fetch.init.headers, AuthorizationName)
     IN  /\ Len(authorization) > Len(EpiHmacPrefix)
         /\ SubSeq(authorization, 1, Len(EpiHmacPrefix)) = EpiHmacPrefix

\* C12 as stated: for every text, the empty one too, and every slot and
\* language routing, uploadSynonyms makes one PUT whose path and query are
\* /resources/synonyms?synonym_slot=<slot>&language_routing=<routing>, whose
\* body is the text unchanged, and which carries an epi-hmac authorization.
C12_UploadIsOnePutOfTheText ==
  running.kind = "uploadSynonyms" =>
    /\ UploadIsSignedPut
    /\ PathAndQueryOfHref(running.fetch.url)
         = DocumentedUploadPath(SlotOf(running.args.options),
                                RoutingOf(running.args.options))

\* C12 amended: for every text, the empty one too, and every slot and
\* language routing, uploadSynonyms makes one PUT whose path and query are
\* /resources/synonyms?synonym_slot=<slot>&language_routing=<routing> with
\* the two values form-urlencoded, whose body is the text unchanged, and
\* which carries an epi-hmac authorization.
C12_UploadIsOnePutOfTheTextEncoded ==
  running.kind = "uploadSynonyms" =>
    /\ UploadIsSignedPut
    /\ PathAndQueryOfHref(running.fetch.url)
         = DocumentedUploadPath(UrlEncode(SlotOf(running.args.options)),
                                UrlEncode(RoutingOf(running.args.options)))

\* uploadSynonyms has put the empty text to slot 2 with routing en.
C12_Witness ==
  /\ running.kind = "uploadSynonyms"
  /\ running.args.synonyms = <<>>
  /\ running.args.options.synonymSlot = <<"2">>
  /\ running.args.options.languageRouting = EnglishRouting
  /\ running.fetch.init.method = PUT
  /\ running.fetch.init.body = <<>>

\* The backend answered a search with JSON that has an errors field.
AnsweredWithErrors ==
  /\ Answered2xx
  /\ running.outcome.body.readable
  /\ running.outcome.body.json.valid
  /\ running.outcome.body.json.value.errors.present

\* C13: when the backend answers searchContent with a status outside the
\* 2xx range or with JSON that has a GraphQL errors field, searchContent
\* returns no items and a non-empty error; in every value it returns, an
\* error comes with no items.
C13_FailureHasNoItems ==
  SearchReturned =>
    /\ (AnsweredNot2xx \/ AnsweredWithErrors) =>
         /\ running.result.items = <<>>
         /\ Truthy(running.result.error)
    /\ Truthy(running.result.error) => running.result.items = <<>>

\* searchContent has returned the failure of an answer that has both errors
\* and items.
C13_Witness ==
  /\ SearchReturned
  /\ AnsweredWithErrors
  /\ running.outcome.body.json.value.data.Content.items # <<>>
  /\ running.result.items = <<>>
  /\ Truthy(running.result.error)

\* The backend answered a search with a success that has no errors field.
AnsweredWithData ==
  /\ Answered2xx
  /\ running.outcome.body.readable
  /\ running.outcome.body.json.valid
  /\ ~running.outcome.body.json.value.errors.present

AnswerData == running.outcome.body.json.value.data

\* The list the documentation takes the raw items from.
DocumentedRawItems ==
  CASE AnswerData.present /\ AnswerData.Content.hasItems -> AnswerData.Content.items
    [] AnswerData.present /\ ~AnswerData.Content.hasItems
         /\ AnswerData._Content.hasItems -> AnswerData._Content.items
    [] OTHER -> <<>>

\* The first identifier a raw item has, and whether it has one.
FirstIdentifier(raw) ==
  IF Truthy(raw._metadata.key) THEN raw._metadata.key
  ELSE IF Truthy(raw._id) THEN raw._id
  ELSE raw.ContentLink.GuidValue
HasIdentifier(raw) == Truthy(FirstIdentifier(raw))

\* The raw items that have an identifier, in their order.
RECURSIVE Identified(_)
Identified(raws) ==
  IF raws = <<>> THEN <<>>
  ELSE (IF HasIdentifier(Head(raws)) THEN <<Head(raws)>> ELSE <<>>)
       \o Identified(Tail(raws))

\* C14: on a success without errors, searchContent takes the raw items from
\* data.Content.items when present, else from data._Content.items, else
\* from the empty list, and the items it returns are the raw items
\* normalized, in their original order.
C14_ItemsFromContentThenUnderscoreContent ==
  (SearchReturned /\ AnsweredWithData) =>
    /\ running.result.error = undefined
    /\ Len(running.result.items) = Len(Identified(DocumentedRawItems))
    /\ \A i \in 1..Len(running.result.items) :
         running.result.items[i] = transformContentItem(Identified(DocumentedRawItems)[i])

\* searchContent has returned, in their order, the items of a list under
\* _Content when Content has no list.
C14_Witness ==
  /\ SearchReturned
  /\ AnsweredWithData
  /\ AnswerData.present
  /\ ~AnswerData.Content.hasItems
  /\ Len(AnswerData._Content.items) = 3
  /\ Len(running.result.items) = 2
  /\ running.result.items[1].id = MetadataItem._id
  /\ running.result.items[2].id = LegacyItem._id

\* The raw items of the answer that have an identifier, in their order.
IdentifiedRawItems == Identified(DocumentedRawItems)

\* C15: every item that searchContent returns has a non-empty guid, the
\* first present among _metadata.key, _id and ContentLink.GuidValue of its
\* raw item; a raw item with none of the three is not returned, and every
\* raw item with one of them is.
C15_GuidIsFirstIdentifier ==
  (SearchReturned /\ AnsweredWithData) =>
    /\ Len(running.result.items) = Len(IdentifiedRawItems)
    /\ \A i \in 1..Len(running.result.items) :
         /\ Truthy(running.result.items[i].guid)
         /\ running.result.items[i].guid = FirstIdentifier(IdentifiedRawItems[i])

\* searchContent has returned two of three raw items, the one identified by
\* its _id and the one identified by its content link, and not the one with
\* no identifier.
C15_Witness ==
  /\ SearchReturned
  /\ AnsweredWithData
  /\ DocumentedRawItems = <<LegacyItem, AnonymousItem, LinkOnlyItem>>
  /\ Len(running.result.items) = 2
  /\ running.result.items[1].guid = LegacyItem._id
  /\ running.result.items[2].guid = LinkOnlyItem.ContentLink.GuidValue

\* The type the documentation reads from a field: the first element of a
\* list, the whole of a string, nothing when the field is absent.
DocumentedTypeOf(field) ==
  IF field.kind = "list" /\ field.value # <<>> THEN field.value[1]
  ELSE IF field.kind = "string" THEN field.value
  ELSE undefined

DocumentedContentType(raw) ==
  OrElse(DocumentedTypeOf(raw.ContentType),
         OrElse(DocumentedTypeOf(raw._metadata.types), <<"Unknown">>))

DocumentedLanguage(raw) ==
  OrElse(raw.Language.Name, OrElse(raw._metadata.locale, <<"Unknown">>))

\* C16: transformContentItem sets contentType to the first element of the
\* type list when the field (ContentType or _metadata.types) is a list, to
\* the whole value when the field is a string, and to "Unknown" when there
\* is none; language is Language.Name, else _metadata.locale, else
\* "Unknown".
C16_ContentTypeAndLanguage ==
  (SearchReturned /\ AnsweredWithData) =>
    \A i \in 1..Len(running.result.items) :
      /\ running.result.items[i].contentType
           = DocumentedContentType(IdentifiedRawItems[i])
      /\ running.result.items[i].language = DocumentedLanguage(IdentifiedRawItems[i])

\* The url the documentation gives an item: the default resolved against
\* the base when both are there and the base can be resolved against,
\* otherwise Url, else the default.
DocumentedUrl(raw) ==
  LET base    == raw._metadata.url.base
      default == raw._metadata.url.default
      single  == IF Truthy(raw.Url) THEN raw.Url ELSE default
  IN  IF Truthy(base) /\ Truthy(default) /\ HasScheme(base)
      THEN HrefOf(default, base)
      ELSE single

\* C17: the url of transformContentItem is the default URL resolved against
\* the base, an absolute URL, whenever _metadata.url.base and
\* _metadata.url.default are both present; otherwise it is the one URL field
\* that is present (Url, else _metadata.url.default); a resolution that
\* fails does not throw and leaves that value.
C17_UrlResolvedAgainstBase ==
  (SearchReturned /\ AnsweredWithData) =>
    \A i \in 1..Len(running.result.items) :
      LET raw == IdentifiedRawItems[i]
      IN  /\ running.result.items[i].url = DocumentedUrl(raw)
          /\ (Truthy(raw._metadata.url.base) /\ Truthy(raw._metadata.url.default)
                /\ HasScheme(raw._metadata.url.base))
               => HasScheme(running.result.items[i].url)

\* searchContent has returned an item whose url is its default resolved
\* against its base, although the item has a Url too.
C17_Witness ==
  /\ SearchReturned
  /\ AnsweredWithData
  /\ \E i \in 1..Len(running.result.items) :
       /\ IdentifiedRawItems[i] = MetadataItem
       /\ Truthy(MetadataItem.Url)
       /\ running.result.items[i].url = SiteBase \o PagePath

-----------------------------------------------------------------------------
(* lib/locale-helpers: localeToSdkLocale and normalizeLocale *)

\* s.replace(/c/g, d) for single characters c and d.
ReplaceEvery(s, c, d) == [i \in 1..Len(s) |-> IF s[i] = c THEN d ELSE s[i]]

\* s.split(c): the pieces between the occurrences of c, empty ones too.
RECURSIVE Split(_, _)
Split(s, c) ==
  LET at == IndexOf(s, c)
  IN  IF at = 0 THEN <<s>>
      ELSE <<SubSeq(s, 1, at - 1)>> \o Split(Drop(s, at), c)

\* The mutant: the script of a three-part locale is lowercased as well.
localeToSdkLocaleScriptLowered(locale) ==
  LET result == ReplaceEvery(locale, "-", "_")
      parts  == Split(result, "_")
  IN  IF Len(parts) = 2
      THEN ToLowerCase(parts[1]) \o <<"_">> \o ToUpperCase(parts[2])
      ELSE IF Len(parts) = 3
      THEN ToLowerCase(parts[1]) \o <<"_">> \o ToLowerCase(parts[2]) \o <<"_">>
             \o ToUpperCase(parts[3])
      ELSE ToLowerCase(result)

\* localeToSdkLocale(locale)
localeToSdkLocale(locale) ==
  LET result == ReplaceEvery(locale, "-", "_")
      parts  == Split(result, "_")
  IN  IF Len(parts) = 2
      THEN ToLowerCase(parts[1]) \o <<"_">> \o ToUpperCase(parts[2])
      ELSE IF Len(parts) = 3
      THEN ToLowerCase(parts[1]) \o <<"_">> \o parts[2] \o <<"_">>
             \o ToUpperCase(parts[3])
      ELSE ToLowerCase(result)

\* The mutant: the locale is lowercased on its way to the URL form.
normalizeLocaleLowered(locale) == ToLowerCase(ReplaceEvery(locale, "_", "-"))

\* normalizeLocale(locale)
normalizeLocale(locale) == ReplaceEvery(locale, "_", "-")

-----------------------------------------------------------------------------
(* config/i18n: defaultI18nConfig *)

LocaleEn == <<"e", "n">>
LocaleNl == <<"n", "l">>
LocaleNlBE == <<"n", "l", "-", "B", "E">>
LocaleSv == <<"s", "v">>
LocaleNo == <<"n", "o">>
LocaleFr == <<"f", "r">>
LocaleFrCA == <<"f", "r", "-", "C", "A">>
LocaleEs == <<"e", "s">>
LocaleIt == <<"i", "t">>
LocaleAr == <<"a", "r">>
LocaleZh == <<"z", "h">>
LocaleZhHansHK == <<"z", "h", "-", "H", "a", "n", "s", "-", "H", "K">>
LocaleDe == <<"d", "e">>
LocaleDeAT == <<"d", "e", "-", "A", "T">>

\* The mutant: 'fr' falls back to 'fr-CA', which falls back to 'fr'.
defaultI18nConfigCyclic ==
  [locales |-> <<LocaleEn, LocaleNl, LocaleNlBE, LocaleSv, LocaleNo, LocaleFr,
                 LocaleFrCA, LocaleEs, LocaleIt, LocaleAr, LocaleZh, LocaleZhHansHK,
                 LocaleDe, LocaleDeAT>>,
   defaultLocale |-> LocaleEn,
   routing |-> [prefixDefaultLocale |-> FALSE, fallbackType |-> "rewrite"],
   fallback |-> << <<LocaleNlBE, LocaleNl>>, <<LocaleFrCA, LocaleFr>>,
                   <<LocaleZhHansHK, LocaleZh>>, <<LocaleDeAT, LocaleDe>>,
                   <<LocaleNl, LocaleEn>>, <<LocaleSv, LocaleEn>>,
                   <<LocaleNo, LocaleEn>>, <<LocaleFr, LocaleFrCA>>,
                   <<LocaleEs, LocaleEn>>, <<LocaleIt, LocaleEn>>,
                   <<LocaleAr, LocaleEn>>, <<LocaleZh, LocaleEn>>,
                   <<LocaleDe, LocaleEn>> >>]

\* defaultI18nConfig; fallback is the object, its properties in their order.
defaultI18nConfig ==
  [locales |-> <<LocaleEn, LocaleNl, LocaleNlBE, LocaleSv, LocaleNo, LocaleFr,
                 LocaleFrCA, LocaleEs, LocaleIt, LocaleAr, LocaleZh, LocaleZhHansHK,
                 LocaleDe, LocaleDeAT>>,
   defaultLocale |-> LocaleEn,
   routing |-> [prefixDefaultLocale |-> FALSE, fallbackType |-> "rewrite"],
   fallback |-> << <<LocaleNlBE, LocaleNl>>, <<LocaleFrCA, LocaleFr>>,
                   <<LocaleZhHansHK, LocaleZh>>, <<LocaleDeAT, LocaleDe>>,
                   <<LocaleNl, LocaleEn>>, <<LocaleSv, LocaleEn>>,
                   <<LocaleNo, LocaleEn>>, <<LocaleFr, LocaleEn>>,
                   <<LocaleEs, LocaleEn>>, <<LocaleIt, LocaleEn>>,
                   <<LocaleAr, LocaleEn>>, <<LocaleZh, LocaleEn>>,
                   <<LocaleDe, LocaleEn>> >>]

\* config.fallback[locale], undefined when there is LocaleNo such entry.
FallbackOf(config, locale) == GetProperty(config.fallback, locale)

-----------------------------------------------------------------------------
(* The locale helpers applied to a locale, and the fallback followed from a
   locale of the default configuration *)

\* The locales handed to the helpers: those of the configuration, and others
\* in other cases, with other separators and with other numbers of parts.
LocaleInputs ==
  Range(defaultI18nConfig.locales)
    \cup { <<"f", "r", "-", "c", "a">>, <<"F", "R", "-", "c", "a">>, <<"E", "N">>,
           <<"p", "t", "_", "b", "r">>, <<"n", "b", "_", "N", "O">>,
           <<"z", "h", "_", "h", "a", "n", "s", "_", "h", "k">>,
           <<"Z", "H", "-", "H", "A", "N", "S", "-", "h", "k">>,
           <<"a", "-", "B", "-", "c", "-", "D">>, <<"f", "r", "-">>, <<>> }

InitLocale ==
  /\ SiteUnused
  /\ conversion \in [input : LocaleInputs, sdk : {undefined},
                     normalized : {undefined}, roundTrip : {undefined}]
  /\ chain \in { <<start>> : start \in Range(defaultI18nConfig.locales) }
  /\ now = EpochStart
  /\ hmacCalls = Unused
  /\ request = Unused
  /\ invocations = Unused
  /\ fetchLog = Unused
  /\ env = Unused
  /\ running = Unused

\* localeToSdkLocale is applied to the locale.
CallLocaleToSdkLocale ==
  /\ conversion.sdk = undefined
  /\ conversion' = [conversion EXCEPT !.sdk = localeToSdkLocale(conversion.input)]
  /\ UNCHANGED <<now, hmacCalls, request, invocations, fetchLog, env, running, chain, siteVars>>

\* normalizeLocale is applied to the locale.
CallNormalizeLocale ==
  /\ conversion.normalized = undefined
  /\ conversion' = [conversion EXCEPT !.normalized = normalizeLocale(conversion.input)]
  /\ UNCHANGED <<now, hmacCalls, request, invocations, fetchLog, env, running, chain, siteVars>>

\* normalizeLocale is applied to what localeToSdkLocale returned.
CallNormalizeLocaleOfSdk ==
  /\ conversion.sdk # undefined
  /\ conversion.roundTrip = undefined
  /\ conversion' = [conversion EXCEPT !.roundTrip = normalizeLocale(conversion.sdk)]
  /\ UNCHANGED <<now, hmacCalls, request, invocations, fetchLog, env, running, chain, siteVars>>

\* The fallback entry of the locale reached last is followed, LocaleNo further
\* than the configuration has locales.
FollowFallback ==
  /\ Len(chain) <= Len(defaultI18nConfig.locales)
  /\ FallbackOf(defaultI18nConfig, chain[Len(chain)]) # undefined
  /\ chain' = Append(chain, FallbackOf(defaultI18nConfig, chain[Len(chain)]))
  /\ UNCHANGED <<now, hmacCalls, request, invocations, fetchLog, env, running, conversion, siteVars>>

NextLocale ==
  \/ CallLocaleToSdkLocale
  \/ CallNormalizeLocale
  \/ CallNormalizeLocaleOfSdk
  \/ FollowFallback

SpecLocale == InitLocale /\ [][NextLocale]_vars

-----------------------------------------------------------------------------
(* Properties of the locale helpers and of the default fallback *)

\* The parts of a locale as the documentation counts them: what lies
\* between its '-' and '_'.
RECURSIVE PartsOf(_)
PartsOf(s) ==
  IF \A i \in 1..Len(s) : s[i] \notin {"-", "_"} THEN <<s>>
  ELSE LET at == CHOOSE i \in 1..Len(s) :
                   /\ s[i] \in {"-", "_"}
                   /\ \A j \in 1..(i - 1) : s[j] \notin {"-", "_"}
       IN  <<SubSeq(s, 1, at - 1)>> \o PartsOf(SubSeq(s, at + 1, Len(s)))

\* The SDK form the documentation gives a locale of one to three parts.
DocumentedSdkLocale(parts) ==
  CASE Len(parts) = 1 -> ToLowerCase(parts[1])
    [] Len(parts) = 2 -> ToLowerCase(parts[1]) \o <<"_">> \o ToUpperCase(parts[2])
    [] Len(parts) = 3 -> ToLowerCase(parts[1]) \o <<"_">> \o parts[2] \o <<"_">>
                           \o ToUpperCase(parts[3])

\* C18: localeToSdkLocale returns a string, as long as its argument, for
\* every locale, and for a locale of one to three parts separated by '-' or
\* '_' it returns the parts joined by '_', the first lowercased, the last
\* uppercased when there are two or three, the middle one of three as it was.
C18_SdkLocaleIsDocumented ==
  /\ conversion.sdk # undefined =>
       /\ Len(PartsOf(conversion.input)) \in 1..3 =>
            conversion.sdk = DocumentedSdkLocale(PartsOf(conversion.input))
       /\ conversion.input = <<"f", "r", "-", "c", "a">> =>
            conversion.sdk = <<"f", "r", "_", "C", "A">>
       /\ conversion.input = LocaleZhHansHK =>
            conversion.sdk = <<"z", "h", "_", "H", "a", "n", "s", "_", "H", "K">>
       /\ conversion.input = <<"E", "N">> => conversion.sdk = LocaleEn
  /\ Len(localeToSdkLocale(conversion.input)) = Len(conversion.input)

\* localeToSdkLocale has returned zh_HANS_HK for ZH-HANS-hk.
C18_Witness ==
  /\ conversion.input = <<"Z", "H", "-", "H", "A", "N", "S", "-", "h", "k">>
  /\ conversion.sdk = <<"z", "h", "_", "H", "A", "N", "S", "_", "H", "K">>

\* A locale of two parts with a hyphen between them, and one whose language
\* is lowercase and whose region is uppercase.
TwoPartHyphenated(s) == Len(PartsOf(s)) = 2 /\ \A i \in 1..Len(s) : s[i] # "_"
CorrectlyCased(s) ==
  /\ ToLowerCase(PartsOf(s)[1]) = PartsOf(s)[1]
  /\ ToUpperCase(PartsOf(s)[2]) = PartsOf(s)[2]

\* C19: normalizeLocale replaces every '_' by '-' and changes no letter, so
\* normalizeLocale(localeToSdkLocale(x)) = x for every two-part hyphenated x
\* whose language is lowercase and whose region is uppercase, while for a
\* two-part hyphenated x in another case it is the case-normalised form and
\* not x.
C19_NormalizeOnlyReplacesUnderscores ==
  /\ conversion.normalized # undefined =>
       /\ Len(conversion.normalized) = Len(conversion.input)
       /\ \A i \in 1..Len(conversion.input) :
            conversion.normalized[i]
              = (IF conversion.input[i] = "_" THEN "-" ELSE conversion.input[i])
  /\ (conversion.roundTrip # undefined /\ TwoPartHyphenated(conversion.input)) =>
       /\ conversion.roundTrip
            = ToLowerCase(PartsOf(conversion.input)[1]) \o <<"-">>
                \o ToUpperCase(PartsOf(conversion.input)[2])
       /\ CorrectlyCased(conversion.input) <=> conversion.roundTrip = conversion.input

\* The round trip of FR-ca has given fr-CA.
C19_Witness ==
  /\ conversion.input = <<"F", "R", "-", "c", "a">>
  /\ conversion.roundTrip = LocaleFrCA
  /\ conversion.roundTrip # conversion.input

\* C20: in the default configuration, following the fallback from any
\* locale visits no locale twice and ends, after no more steps than there
\* are locales, at the default locale 'en', which has no fallback entry;
\* every key and every target of fallback is one of locales.
C20_FallbackEndsAtDefault ==
  /\ \A i, j \in 1..Len(chain) : chain[i] = chain[j] => i = j
  /\ Len(chain) <= Len(defaultI18nConfig.locales)
  /\ \A i \in 1..Len(chain) : chain[i] \in Range(defaultI18nConfig.locales)
  /\ FallbackOf(defaultI18nConfig, chain[Len(chain)]) = undefined
       <=> chain[Len(chain)] = LocaleEn
  /\ defaultI18nConfig.defaultLocale = LocaleEn
  /\ FallbackOf(defaultI18nConfig, LocaleEn) = undefined
  /\ \A i \in 1..Len(defaultI18nConfig.fallback) :
       /\ defaultI18nConfig.fallback[i][1] \in Range(defaultI18nConfig.locales)
       /\ defaultI18nConfig.fallback[i][2] \in Range(defaultI18nConfig.locales)

\* The fallback has been followed from fr-CA to fr and to en.
C20_Witness == chain = <<LocaleFrCA, LocaleFr, LocaleEn>>

-----------------------------------------------------------------------------
(* Properties of the answers of the admin routes *)

\* The messages of the errors the runtime throws: of request.json() and
\* response.json() on a text that is not JSON, of fetch, and of a body that
\* ends before it is read.
RuntimeErrorMessages ==
  { JsonSyntaxMessage, FetchFailedMessage, BodyRefusedMessage, TerminatedMessage }

\* A route has answered.
RouteAnswered ==
  /\ running.state = "done"
  /\ running.kind \in {"synonymsRoute", "contentSearchPost", "contentSearchGet"}

\* The strings the answer of a route carries about an error.
ErrorStringsOf(response) ==
  { response.body[field] : field \in DOMAIN response.body \cap {"error", "details"} }

\* C21: an answer of an admin route that is not a success carries one error
\* string, and no answer carries the message of an error that was thrown.
C21_NoExceptionTextInAnswer ==
  RouteAnswered =>
    /\ ErrorStringsOf(running.result) \cap RuntimeErrorMessages = {}
    /\ Cardinality(ErrorStringsOf(running.result)) <= 1

-----------------------------------------------------------------------------
(* pages/opti-admin/auth-opti-admin.ts and the admin check of the middleware *)

GraphUnused ==
  /\ now = EpochStart
  /\ hmacCalls = Unused
  /\ request = Unused
  /\ invocations = Unused
  /\ fetchLog = Unused
  /\ env = Unused
  /\ running = Unused
  /\ conversion = Unused
  /\ chain = Unused

\* What headers.get returns for a header the request does not have.
null == <<"(null)">>

\* The characters of the codes 32 to 126, in order; the grave accent (96) is
\* written by its number.
AsciiPrintable ==
  <<" ", "!", "\"", "#", "$", "%", "&", "'", "(", ")", "*", "+", ",", "-", ".", "/",
    "0", "1", "2", "3", "4", "5", "6", "7", "8", "9", ":", ";", "<", "=", ">", "?",
    "@", "A", "B", "C", "D", "E", "F", "G", "H", "I", "J", "K", "L", "M", "N", "O",
    "P", "Q", "R", "S", "T", "U", "V", "W", "X", "Y", "Z", "[", "\\", "]", "^", "_",
    "1096", "a", "b", "c", "d", "e", "f", "g", "h", "i", "j", "k", "l", "m", "n", "o",
    "p", "q", "r", "s", "t", "u", "v", "w", "x", "y", "z", "{", "|", "}", "~">>

\* String.fromCharCode of one byte; a byte that is no printable character is
\* kept apart by its number.
FromCharCode(byte) ==
  IF byte \in 32..126 THEN AsciiPrintable[byte - 31] ELSE ToString(1000 + byte)

AsciiWhitespace == {" ", "\t", "\n", "\f", "\r"}

\* Without one or two '=' at its end, when the length is a multiple of four.
WithoutPadding(s) ==
  IF Len(s) % 4 # 0 \/ Len(s) = 0 \/ s[Len(s)] # "=" THEN s
  ELSE IF s[Len(s) - 1] = "=" THEN SubSeq(s, 1, Len(s) - 2)
  ELSE SubSeq(s, 1, Len(s) - 1)

\* atob(data): whitespace is dropped and padding removed; a length of one
\* more than a multiple of four, or a character outside the alphabet, throws;
\* the bytes become the characters of the result.
atob(data) ==
  LET stripped == SelectSeq(data, LAMBDA c : c \notin AsciiWhitespace)
      unpadded == WithoutPadding(stripped)
      bytes    == Base64DecodeFrom(unpadded, 0, 0)
  IN  IF Len(unpadded) % 4 = 1
         \/ \E i \in 1..Len(unpadded) : unpadded[i] \notin Range(Base64Alphabet)
      THEN [threw |-> TRUE, value |-> <<>>]
      ELSE [threw |-> FALSE, value |-> [i \in 1..Len(bytes) |-> FromCharCode(bytes[i])]]

\* String.prototype.startsWith
StartsWith(s, prefix) == Len(s) >= Len(prefix) /\ SubSeq(s, 1, Len(prefix)) = prefix

BasicPrefix == <<"B", "a", "s", "i", "c", " ">>

NoCredentials == [present |-> FALSE, username |-> undefined, password |-> undefined]

\* isAdminConfigured()
isAdminConfigured(environment) ==
  Truthy(environment.ADMIN_DASHBOARD_USERNAME)
    /\ Truthy(environment.ADMIN_DASHBOARD_PASSWORD)

\* parseBasicAuth(authHeader): the first two pieces of the decoded text between
\* its colons; a piece that is not there is undefined.
parseBasicAuth(authHeader) ==
  IF authHeader = null \/ authHeader = <<>> \/ ~StartsWith(authHeader, BasicPrefix)
  THEN NoCredentials
  ELSE LET credentials == atob(Drop(authHeader, 6))
           pieces == Split(credentials.value, ":")
       IN  IF credentials.threw THEN NoCredentials
           ELSE [present |-> TRUE, username |-> pieces[1],
                 password |-> IF Len(pieces) >= 2 THEN pieces[2] ELSE undefined]

NotFound == [status |-> 404, text |-> <<"Not found">>, challenge |-> null]
Unauthorized ==
  [status |-> 401, text |-> <<"Unauthorized">>,
   challenge |-> <<"Basic realm=\"Admin Dashboard\"">>]
\* checkAdminAuth returns null: the request may pass.
Passes == [status |-> 0, text |-> <<>>, challenge |-> null]

\* checkAdminAuth(request)
checkAdminAuth(environment, authHeader) ==
  LET credentials == parseBasicAuth(authHeader)
  IN  IF ~isAdminConfigured(environment) THEN NotFound
      ELSE IF ~credentials.present
              \/ credentials.username # environment.ADMIN_DASHBOARD_USERNAME
              \/ credentials.password # environment.ADMIN_DASHBOARD_PASSWORD
      THEN Unauthorized
      ELSE Passes

-----------------------------------------------------------------------------
(* The middleware's admin check: requests and environments *)

AdminPrefix == <<"/", "o", "p", "t", "i", "-", "a", "d", "m", "i", "n">>

AdminPaths ==
  { AdminPrefix, AdminPrefix \o <<"/", "c", "m", "s", "-", "s", "y", "n", "c">>,
    <<"/">>, <<"/", "e", "n">> }

\* import.meta.env: a variable that is not set reads as undefined.
AdminEnvironments ==
  [ADMIN_DASHBOARD_USERNAME : {undefined, <<>>, <<"a">>},
   ADMIN_DASHBOARD_PASSWORD : {undefined, <<>>, <<"b">>, <<"b", ":", "c">>}]

\* The Authorization header of the request: none; the base64 of 'a:b', of
\* 'a:b:c', of 'a:c' and of 'a'; 'a:b' under a lowercase scheme and after a
\* second space; a text that is not base64; another scheme.
AuthorizationHeaders ==
  { null,
    BasicPrefix \o <<"Y", "T", "p", "i">>,
    BasicPrefix \o <<"Y", "T", "p", "i", "O", "m", "M", "=">>,
    BasicPrefix \o <<"Y", "T", "p", "j">>,
    BasicPrefix \o <<"Y", "Q", "=", "=">>,
    <<"b", "a", "s", "i", "c", " ", "Y", "T", "p", "i">>,
    BasicPrefix \o <<" ", "Y", "T", "p", "i">>,
    BasicPrefix \o <<"%", "%", "%">>,
    <<"B", "e", "a", "r", "e", "r", " ", "x">> }

InitAdmin ==
  /\ GraphUnused
  /\ admin \in [state : {"received"}, environment : AdminEnvironments,
                pathname : AdminPaths, authorization : AuthorizationHeaders,
                nextCalled : {FALSE}, response : {Passes}]
  /\ stream = Unused
  /\ push = Unused
  /\ cache = Unused
  /\ sync = Unused
  /\ pinned = Unused

\* onRequest up to its call of next(), or to its return of what
\* checkAdminAuth answered.
onRequest ==
  /\ admin.state = "received"
  /\ LET authError == IF StartsWith(admin.pathname, AdminPrefix)
                      THEN checkAdminAuth(admin.environment, admin.authorization)
                      ELSE Passes
     IN  admin' = IF authError # Passes
                  THEN [admin EXCEPT !.state = "answered", !.response = authError]
                  ELSE [admin EXCEPT !.state = "downstream", !.nextCalled = TRUE]
  /\ UNCHANGED <<graphVars, stream, push, cache, sync, pinned>>

\* The downstream handler answers.
DownstreamAnswers ==
  /\ admin.state = "downstream"
  /\ admin' = [admin EXCEPT !.state = "answered",
                            !.response = [status |-> 200, text |-> <<"(page)">>,
                                          challenge |-> null]]
  /\ UNCHANGED <<graphVars, stream, push, cache, sync, pinned>>

NextAdmin == onRequest \/ DownstreamAnswers

SpecAdmin == InitAdmin /\ [][NextAdmin]_vars

-----------------------------------------------------------------------------
(* Properties of the admin check *)

\* The header is a Basic header whose base64 text decodes to the configured
\* username, a colon and the configured password.
DecodesToConfigured(authHeader, environment) ==
  /\ authHeader # null
  /\ StartsWith(authHeader, BasicPrefix)
  /\ ~atob(Drop(authHeader, 6)).threw
  /\ atob(Drop(authHeader, 6)).value
       = environment.ADMIN_DASHBOARD_USERNAME \o <<":">>
           \o environment.ADMIN_DASHBOARD_PASSWORD

\* C22: for a path that starts with /opti-admin the middleware calls the
\* downstream handler exactly when both credentials are configured and the
\* Basic header decodes to them; it answers 404 when they are not configured
\* and 401 with a WWW-Authenticate challenge when they are configured and the
\* header is missing or does not match.
C22_HandlerIffExactCredentials ==
  (admin.state # "received" /\ StartsWith(admin.pathname, AdminPrefix)) =>
    LET configured == isAdminConfigured(admin.environment)
        matched == configured
                     /\ DecodesToConfigured(admin.authorization, admin.environment)
    IN  /\ admin.nextCalled <=> matched
        /\ ~configured => admin.response.status = 404
        /\ (configured /\ ~matched) =>
             /\ admin.response.status = 401
             /\ admin.response.challenge # null

-----------------------------------------------------------------------------
(* The Authorization header of the dispatcher, checked under SpecDispatch *)

\* C23: the Authorization header that fetch transmits is exactly the epi-hmac
\* value computed for the request; no header of the caller, whatever the case
\* of its name, replaces it, precedes it or is combined with it.
C23_AuthorizationIsComputedValue ==
  Fetched =>
    WireHeader(request.fetch.init.headers, AuthorizationName) = ComputedAuthorization

-----------------------------------------------------------------------------
(* pages/opti-admin/api/stream/push-style.ts: GET, and pushStyle *)

\* What the stream's log keeps of a call of controller.enqueue and of a call
\* of controller.close, each with whether the call threw.
Enqueued(data, threw) == [op |-> "enqueue", data |-> data, threw |-> threw]
Closed(threw) == [op |-> "close", data |-> [type |-> "none"], threw |-> threw]

LogMessage(progress) ==
  [type |-> "log", message |-> progress.message, level |-> progress.level]
CompleteMessage(result) ==
  [type |-> "complete", message |-> result.message, success |-> result.success]
ErrorMessage(message) ==
  [type |-> "error", message |-> <<"Failed to push style: ">> \o message]

\* sendMessage(data): controller.enqueue throws when the stream is no longer
\* readable, and the throw is ignored.
sendMessage(s, data) ==
  IF ~s.closed
  THEN [s EXCEPT !.log = Append(@, Enqueued(data, s.controller # "readable"))]
  ELSE s

\* onProgress(progress), with the progress kept as pushStyle emitted it.
onProgress(s, progress) ==
  sendMessage([s EXCEPT !.emitted = Append(@, progress)], LogMessage(progress))

\* closed = true; controller.close(), whose throw on a stream that is no
\* longer readable is ignored.
MarkAndClose(s) ==
  [s EXCEPT !.closed = TRUE,
            !.log = Append(@, Closed(s.controller # "readable")),
            !.controller = IF @ = "readable" THEN "closed" ELSE @]

\* The mutant: the listener closes the controller and leaves the mark.
abortListenerUnmarked(s) ==
  IF ~s.closed
  THEN [s EXCEPT !.log = Append(@, Closed(s.controller # "readable")),
                 !.controller = IF @ = "readable" THEN "closed" ELSE @]
  ELSE s

\* The listener of the request signal's 'abort' event.
abortListener(s) == IF ~s.closed THEN MarkAndClose(s) ELSE s

\* The callbacks of .then, .catch and .finally.
thenCallback(s, result) ==
  IF ~s.closed THEN sendMessage(s, CompleteMessage(result)) ELSE s
catchCallback(s, message) ==
  IF ~s.closed THEN sendMessage(s, ErrorMessage(message)) ELSE s
finallyCallback(s) == IF ~s.closed THEN MarkAndClose(s) ELSE s

\* The progress pushStyle reports and the results it returns.
Progress(stage, level) == [message |-> <<stage>>, level |-> level]
ResolvedWith(success, stage) ==
  [state |-> "resolved", success |-> success, message |-> <<stage>>]
\* A rejection of the promise: the body of pushStyle lies in a try block
\* whose catch block returns, so pushStyle settles with none.
RejectedWith(message) == [state |-> "rejected", success |-> FALSE, message |-> message]
NotYet == [state |-> "pending", success |-> FALSE, message |-> <<>>]

\* pushStyle ends in its catch block, or with a result that is no success.
PushStyleFails(s, stage) ==
  [onProgress(s, Progress(stage, "error")) EXCEPT
     !.pc = "settled", !.settlement = ResolvedWith(FALSE, stage)]

\* pushStyle goes on to its next await.
PushStyleGoesOn(s, stage, pc) ==
  [onProgress(s, Progress(stage, "info")) EXCEPT !.pc = pc]

\* new ReadableStream({ start }): start has run when the constructor
\* returns, and with it pushStyle up to its first await, or to its end when
\* createCMSClient throws.
NewStream(signalAborted, clientThrows) ==
  LET s == [closed |-> FALSE, controller |-> "readable", log |-> <<>>,
            signalAborted |-> signalAborted,
            abortAt |-> IF signalAborted THEN "start" ELSE "never",
            pc |-> "start", settlement |-> NotYet, emitted |-> <<>>,
            handlers |-> "pending"]
  IN  IF clientThrows THEN PushStyleFails(s, "client")
      ELSE PushStyleGoesOn(s, "init", "findFiles")

InitStream ==
  /\ GraphUnused
  /\ admin = Unused
  /\ \E signalAborted \in BOOLEAN, clientThrows \in BOOLEAN :
       stream = NewStream(signalAborted, clientThrows)
  /\ push = Unused
  /\ cache = Unused
  /\ sync = Unused
  /\ pinned = Unused

\* findFiles settles and pushStyle runs on: the style file is among the
\* files or not (a search that fails finds no files).
FindFilesSettles ==
  /\ stream.pc = "findFiles"
  /\ \E outcome \in {"not found", "found"} :
       stream' = IF outcome = "found"
                 THEN PushStyleGoesOn(stream, "reading", "readJsonFile")
                 ELSE PushStyleFails(stream, outcome)
  /\ UNCHANGED <<graphVars, admin, push, cache, sync, pinned>>

\* readJsonFile settles: it rejects, the definition has no key, or it is valid.
ReadJsonFileSettles ==
  /\ stream.pc = "readJsonFile"
  /\ \E outcome \in {"rejects", "invalid", "valid"} :
       stream' = IF outcome = "valid"
                 THEN PushStyleGoesOn(stream, "pushing", "displayTemplatesPut")
                 ELSE PushStyleFails(stream, outcome)
  /\ UNCHANGED <<graphVars, admin, push, cache, sync, pinned>>

\* displayTemplatesPut settles: the CMS accepts the style or rejects.
DisplayTemplatesPutSettles ==
  /\ stream.pc = "displayTemplatesPut"
  /\ \E outcome \in {"accepted", "rejects"} :
       stream' =
         IF outcome = "accepted"
         THEN [onProgress(stream, Progress("complete", "success")) EXCEPT
                 !.pc = "settled", !.settlement = ResolvedWith(TRUE, "complete")]
         ELSE PushStyleFails(stream, outcome)
  /\ UNCHANGED <<graphVars, admin, push, cache, sync, pinned>>

\* The promise of pushStyle has settled: the callback of .then runs on a
\* resolution, the callback of .catch on a rejection.
SettlementCallbackRuns ==
  /\ stream.pc = "settled"
  /\ stream.handlers = "pending"
  /\ stream' = [(IF stream.settlement.state = "resolved"
                  THEN thenCallback(stream, stream.settlement)
                  ELSE catchCallback(stream, stream.settlement.message))
                  EXCEPT !.handlers = "finally"]
  /\ UNCHANGED <<graphVars, admin, push, cache, sync, pinned>>

\* The callback of .finally runs.
FinallyCallbackRuns ==
  /\ stream.handlers = "finally"
  /\ stream' = [finallyCallback(stream) EXCEPT !.handlers = "done"]
  /\ UNCHANGED <<graphVars, admin, push, cache, sync, pinned>>

\* The client disconnects and the request signal fires 'abort', once; a
\* signal that was aborted before the listener was added fires nothing.
ClientAborts ==
  /\ stream.abortAt = "never"
  /\ stream' = [abortListener(stream) EXCEPT
                  !.abortAt = IF stream.pc = "settled" THEN "settled" ELSE "running"]
  /\ UNCHANGED <<graphVars, admin, push, cache, sync, pinned>>

\* The consumer of the response body cancels the stream.
ConsumerCancels ==
  /\ stream.controller = "readable"
  /\ stream' = [stream EXCEPT !.controller = "cancelled"]
  /\ UNCHANGED <<graphVars, admin, push, cache, sync, pinned>>

NextStream ==
  \/ FindFilesSettles
  \/ ReadJsonFileSettles
  \/ DisplayTemplatesPutSettles
  \/ SettlementCallbackRuns
  \/ FinallyCallbackRuns
  \/ ClientAborts
  \/ ConsumerCancels

SpecStream == InitStream /\ [][NextStream]_vars

-----------------------------------------------------------------------------
(* Properties of the push-style stream *)

CloseCalls == { i \in 1..Len(stream.log) : stream.log[i].op = "close" }
EnqueueCalls == { i \in 1..Len(stream.log) : stream.log[i].op = "enqueue" }

\* C24: whatever the order of the client's abort, the progress callbacks and
\* the settlement of pushStyle, controller.close is called at most once, and
\* no message is enqueued once the stream is marked closed: the mark is there
\* exactly when close was called, and no enqueue follows that call.
C24_ClosedOnceNothingEnqueuedAfter ==
  /\ Cardinality(CloseCalls) <= 1
  /\ stream.closed <=> CloseCalls # {}
  /\ \A c \in CloseCalls, e \in EnqueueCalls : e < c

\* The client has aborted after two progress messages, and pushStyle has
\* settled and its callbacks have run after that.
C24_Witness ==
  /\ stream.abortAt = "running"
  /\ stream.handlers = "done"
  /\ Len(stream.emitted) = 4
  /\ Cardinality(EnqueueCalls) = 2
  /\ Cardinality(CloseCalls) = 1

\* The messages the stream carries, in order, and the calls of enqueue for a
\* terminal message.
Carried ==
  LET taken == SelectSeq(stream.log, LAMBDA e : e.op = "enqueue" /\ ~e.threw)
  IN  [i \in 1..Len(taken) |-> taken[i].data]
TerminalCalls == { i \in EnqueueCalls : stream.log[i].data.type \in {"complete", "error"} }

\* The terminal message of a settlement.
TerminalOf(settlement) ==
  IF settlement.state = "resolved" THEN CompleteMessage(settlement)
  ELSE ErrorMessage(settlement.message)

\* The client has not gone: no abort of the request, no cancelled body.
ClientStays == stream.abortAt = "never" /\ stream.controller # "cancelled"

\* C25: when the client does not abort, the stream carries every progress
\* message as a 'log' message, in the order of emission, then one terminal
\* message, 'complete' after a resolution and 'error' after a rejection, and
\* is closed only after it; when the client aborts before pushStyle settles,
\* no terminal message is sent.
C25_LogsThenOneTerminalThenClose ==
  /\ (ClientStays /\ stream.handlers = "done") =>
       /\ Carried = [i \in 1..Len(stream.emitted) |-> LogMessage(stream.emitted[i])]
                      \o <<TerminalOf(stream.settlement)>>
       /\ Len(stream.log) = Len(Carried) + 1
       /\ stream.log[Len(stream.log)] = Closed(FALSE)
  /\ ClientStays => \A c \in CloseCalls : \E t \in TerminalCalls : t < c
  /\ stream.abortAt \in {"start", "running"} => TerminalCalls = {}

-----------------------------------------------------------------------------
(* services/cms-sync: pushAllContentTypes, pushAllStyles, ensurePropertyGroups *)

\* How many definition files a run finds at most.
MaxFiles == 3

\* The names every object inherits from Object.prototype, as far as the model
\* uses them: existingGroups[name] is a function, and truthy, for each.
InheritedNames == {"constructor", "toString"}

\* existingGroups[group], read as a condition: the map is an object literal
\* filled by assignment, and a name it does not own is looked up in its
\* prototype.
HasGroup(existingGroups, group) == group \in existingGroups \/ group \in InheritedNames

RECURSIVE AddEach(_, _, _)
\* groupsToCreate after the loop over the properties: a Set keeps the order
\* of first insertion.
AddEach(groups, existingGroups, groupsToCreate) ==
  IF groups = <<>> THEN groupsToCreate
  ELSE AddEach(Tail(groups), existingGroups,
               IF ~HasGroup(existingGroups, Head(groups))
                  /\ Head(groups) \notin Range(groupsToCreate)
               THEN Append(groupsToCreate, Head(groups))
               ELSE groupsToCreate)

\* The groups ensurePropertyGroups sets out to create for a content type;
\* the groups of a content type are those of its properties, in order.
GroupsToCreate(contentType, existingGroups) ==
  AddEach(contentType.groups, existingGroups, <<>>)

\* The return statement after the loop.
SyncSummary(results) ==
  [success |-> results.failed = 0, counted |-> TRUE, results |-> results]

\* The return statement of the outer catch block.
SyncFailure == [success |-> FALSE, counted |-> FALSE,
                results |-> [success |-> 0, failed |-> 0, skipped |-> 0]]

\* The loop goes to its next file, or ends and the function returns.
NextFile(p) ==
  IF p.index < Len(p.files)
  THEN [p EXCEPT !.index = @ + 1, !.pc = "readJsonFile", !.groupsToCreate = <<>>]
  ELSE [p EXCEPT !.index = @ + 1, !.pc = "returned", !.groupsToCreate = <<>>,
                 !.result = SyncSummary(p.results)]

\* The PUT of the current file is issued: what the CMS lacks of the groups
\* the file refers to is kept with it.
IssuePut(p) ==
  [p EXCEPT !.pc = "put",
            !.puts = Append(@, [file |-> p.index,
                                missing |-> Range(p.files[p.index].groups)
                                              \ p.cmsGroups])]

\* The mutant: the loop ends at the first file that fails.
FileFailedEndsLoop(p) ==
  [p EXCEPT !.pc = "returned", !.groupsToCreate = <<>>,
            !.results = [@ EXCEPT !.failed = @ + 1],
            !.outcomes = Append(@, "failed"),
            !.result = SyncSummary([p.results EXCEPT !.failed = @ + 1])]

\* The catch block inside the loop.
FileFailed(p) ==
  NextFile([p EXCEPT !.results = [@ EXCEPT !.failed = @ + 1],
                     !.outcomes = Append(@, "failed")])

\* results.skipped++; continue
FileSkipped(p) ==
  NextFile([p EXCEPT !.results = [@ EXCEPT !.skipped = @ + 1],
                     !.outcomes = Append(@, "skipped")])

\* results.success++
FileSucceeded(p) ==
  NextFile([p EXCEPT !.results = [@ EXCEPT !.success = @ + 1],
                     !.outcomes = Append(@, "success")])

\* The outer catch block.
RunFailed(p) == [p EXCEPT !.pc = "returned", !.result = SyncFailure]

\* The definition files: one that cannot be read or parsed, one without a
\* key, and valid ones with the groups their properties refer to.
Unreadable == [read |-> "unreadable", groups |-> <<>>]
Invalid == [read |-> "invalid", groups |-> <<>>]
TypeFiles ==
  { Unreadable, Invalid,
    [read |-> "ok", groups |-> <<>>],
    [read |-> "ok", groups |-> <<"g1">>],
    [read |-> "ok", groups |-> <<"g1", "g2", "g1">>],
    [read |-> "ok", groups |-> <<"constructor">>] }
StyleFiles == { Unreadable, Invalid, [read |-> "ok", groups |-> <<>>] }

FileLists(files) == UNION { [1..n -> files] : n \in 0..MaxFiles }

\* A run after its synchronous start: createCMSClient has thrown and the run
\* has returned, or findFiles is awaited.
NewRun(kind, files, cmsGroups, clientThrows) ==
  LET p == [kind |-> kind, files |-> files, cmsGroups |-> cmsGroups,
            existingGroups |-> {}, index |-> 0, pc |-> "findFiles",
            groupsToCreate |-> <<>>,
            results |-> [success |-> 0, failed |-> 0, skipped |-> 0],
            outcomes |-> <<>>, creations |-> <<>>, puts |-> <<>>,
            result |-> SyncFailure]
  IN  IF clientThrows THEN RunFailed(p) ELSE p

InitPush ==
  /\ GraphUnused
  /\ admin = Unused
  /\ stream = Unused
  /\ \E clientThrows \in BOOLEAN :
       \/ \E files \in FileLists(TypeFiles), cmsGroups \in {{}, {"g1"}} :
            push = NewRun("types", files, cmsGroups, clientThrows)
       \/ \E files \in FileLists(StyleFiles) :
            push = NewRun("styles", files, {}, clientThrows)
  /\ cache = Unused
  /\ sync = Unused
  /\ pinned = Unused

\* findFiles has settled: pushAllStyles enters its loop, pushAllContentTypes
\* awaits getPropertyGroups.
FilesFound ==
  /\ push.pc = "findFiles"
  /\ push' = IF push.kind = "types" THEN [push EXCEPT !.pc = "getPropertyGroups"]
             ELSE NextFile(push)
  /\ UNCHANGED <<graphVars, admin, stream, cache, sync, pinned>>

\* getPropertyGroups has settled: with the groups of the CMS, or with an
\* error that ends the run.
PropertyGroupsFetched ==
  /\ push.pc = "getPropertyGroups"
  /\ \E fetched \in BOOLEAN :
       push' = IF fetched
               THEN NextFile([push EXCEPT !.existingGroups = push.cmsGroups])
               ELSE RunFailed(push)
  /\ UNCHANGED <<graphVars, admin, stream, cache, sync, pinned>>

\* readJsonFile has settled for the current file, and the loop body runs to
\* its next await.
FileRead ==
  /\ push.pc = "readJsonFile"
  /\ LET file == push.files[push.index]
         groupsToCreate == GroupsToCreate(file, push.existingGroups)
     IN  push' =
           CASE file.read = "unreadable" -> FileFailed(push)
             [] file.read = "invalid" -> FileSkipped(push)
             [] OTHER ->
                  IF push.kind = "types" /\ groupsToCreate # <<>>
                  THEN [push EXCEPT !.pc = "createPropertyGroup",
                                    !.groupsToCreate = groupsToCreate]
                  ELSE IssuePut(push)
  /\ UNCHANGED <<graphVars, admin, stream, cache, sync, pinned>>

\* createPropertyGroup has settled for the first group left to create: the
\* group is there and ensurePropertyGroups goes on, or the error ends the
\* work on the file.
PropertyGroupCreated ==
  /\ push.pc = "createPropertyGroup"
  /\ \E created \in BOOLEAN :
       LET group == Head(push.groupsToCreate)
           noted == [push EXCEPT
                       !.creations = Append(@, [file |-> push.index, group |-> group,
                                                created |-> created])]
           ensured == [noted EXCEPT !.existingGroups = @ \cup {group},
                                    !.cmsGroups = @ \cup {group},
                                    !.groupsToCreate = Tail(@)]
       IN  push' = IF ~created THEN FileFailed(noted)
                   ELSE IF ensured.groupsToCreate = <<>> THEN IssuePut(ensured)
                   ELSE ensured
  /\ UNCHANGED <<graphVars, admin, stream, cache, sync, pinned>>

\* contentTypesPut or displayTemplatesPut has settled.
PutSettles ==
  /\ push.pc = "put"
  /\ \E accepted \in BOOLEAN :
       push' = IF accepted THEN FileSucceeded(push) ELSE FileFailed(push)
  /\ UNCHANGED <<graphVars, admin, stream, cache, sync, pinned>>

NextPush ==
  \/ FilesFound
  \/ PropertyGroupsFetched
  \/ FileRead
  \/ PropertyGroupCreated
  \/ PutSettles

SpecPush == InitPush /\ [][NextPush]_vars

-----------------------------------------------------------------------------
(* Properties of the bulk pushes *)

\* C26: whatever files there are and whichever of them fail to be read, to
\* be valid or to be accepted by the CMS, a run that has returned from its
\* loop has counted every file in exactly one of success, failed and skipped,
\* has gone through all the files, and reports success exactly when failed
\* is 0.
C26_EveryFileCountedOnce ==
  (push.pc = "returned" /\ push.result.counted) =>
    /\ push.results.success + push.results.failed + push.results.skipped
         = Len(push.files)
    /\ Len(push.outcomes) = Len(push.files)
    /\ \A kind \in {"success", "failed", "skipped"} :
         push.results[kind]
           = Cardinality({i \in 1..Len(push.outcomes) : push.outcomes[i] = kind})
    /\ \A i \in 1..Len(push.files) :
         /\ push.files[i].read = "unreadable" => push.outcomes[i] = "failed"
         /\ push.files[i].read = "invalid" => push.outcomes[i] = "skipped"
    /\ push.result.success <=> push.results.failed = 0
    /\ push.result.results = push.results

\* A run over three files has returned: the first could not be read, the
\* second was invalid, the third was pushed.
C26_Witness ==
  /\ push.pc = "returned"
  /\ push.outcomes = <<"failed", "skipped", "success">>
  /\ ~push.result.success

\* C27: in a run of pushAllContentTypes no property group is created with
\* success twice, every group a content type refers to is in the CMS when
\* the PUT of the content type is issued, and no PUT is issued for a content
\* type for which the creation of a group failed.
C27_GroupsExistBeforePut ==
  /\ \A i, j \in 1..Len(push.creations) :
       (push.creations[i].created /\ push.creations[j].created
          /\ push.creations[i].group = push.creations[j].group) => i = j
  /\ \A i \in 1..Len(push.puts) : push.puts[i].missing = {}
  /\ \A i \in 1..Len(push.creations), j \in 1..Len(push.puts) :
       ~push.creations[i].created => push.puts[j].file # push.creations[i].file

-----------------------------------------------------------------------------
(* middleware.ts: placeholderCache and getPlaceholders *)

\* CACHE_DURATION, in milliseconds
CACHE_DURATION == 60000

\* How many times the clock of the timers advances, each time by half of
\* CACHE_DURATION, and how many calls of getPlaceholders a behaviour has.
MaxClockSteps == 4
MaxRequests == 3

\* `${domain}-${locale}` for the domains and locales of the requests.
CacheKeys == {"a.com-en", "a.com-fr_CA"}

NotCached == [present |-> FALSE, storedAt |-> 0, map |-> 0]

\* The mutant: the map is stored and no timer is set.
CachePlaceholdersUntimed(c, key) ==
  [c EXCEPT !.entries[key] = [present |-> TRUE, storedAt |-> c.time,
                              map |-> c.stored + 1],
            !.stored = @ + 1]

\* placeholderCache.set(cacheKey, placeholders); setTimeout(() =>
\* placeholderCache.delete(cacheKey), CACHE_DURATION)
CachePlaceholders(c, key) ==
  [c EXCEPT !.entries[key] = [present |-> TRUE, storedAt |-> c.time,
                              map |-> c.stored + 1],
            !.stored = @ + 1,
            !.timers = @ \cup {[key |-> key, due |-> c.time + CACHE_DURATION,
                                of |-> c.stored + 1]}]

\* What a call of getPlaceholders returned: the map, whether it came from
\* the cache, how long it had been there, and whether a timer that was to
\* delete it was due and had not run yet.
Served(c, key, hit) ==
  [key |-> key, hit |-> hit, map |-> c.entries[key].map,
   age |-> c.time - c.entries[key].storedAt,
   overdue |-> \E t \in c.timers : t.key = key /\ t.due <= c.time]

InitCache ==
  /\ GraphUnused
  /\ admin = Unused
  /\ stream = Unused
  /\ push = Unused
  /\ cache = [time |-> 0, entries |-> [key \in CacheKeys |-> NotCached],
              timers |-> {}, stored |-> 0, awaiting |-> <<>>, started |-> 0,
              graphQLCalls |-> 0, served |-> <<>>, deleted |-> <<>>]
  /\ sync = Unused
  /\ pinned = Unused

\* Time passes.  A timer runs when the event loop comes to it, its delay
\* being the least time it waits.
TimePasses ==
  /\ cache.time < MaxClockSteps * (CACHE_DURATION \div 2)
  /\ cache' = [cache EXCEPT !.time = @ + (CACHE_DURATION \div 2)]
  /\ UNCHANGED <<graphVars, admin, stream, push, sync, pinned>>

\* getPlaceholders(domain, locale) up to its return of the cached map, or to
\* its await of the GraphQL call.
CallGetPlaceholders ==
  /\ cache.started < MaxRequests
  /\ \E key \in CacheKeys :
       cache' = IF cache.entries[key].present
                THEN [cache EXCEPT !.started = @ + 1,
                                   !.served = Append(@, Served(cache, key, TRUE))]
                ELSE [cache EXCEPT !.started = @ + 1,
                                   !.graphQLCalls = @ + 1,
                                   !.awaiting = Append(@, key)]
  /\ UNCHANGED <<graphVars, admin, stream, push, sync, pinned>>

\* The GraphQL call of one of the calls settles: its map is stored and
\* returned, or the call throws and stores nothing.
PlaceholderConfigurationsSettles ==
  /\ \E i \in 1..Len(cache.awaiting), answered \in BOOLEAN :
       LET key == cache.awaiting[i]
           rest == [cache EXCEPT
                      !.awaiting = SubSeq(@, 1, i - 1) \o SubSeq(@, i + 1, Len(@))]
           kept == CachePlaceholders(rest, key)
       IN  cache' = IF answered
                    THEN [kept EXCEPT !.served = Append(@, Served(kept, key, FALSE))]
                    ELSE rest
  /\ UNCHANGED <<graphVars, admin, stream, push, sync, pinned>>

\* A timer runs: placeholderCache.delete(cacheKey)
EvictionTimerRuns ==
  /\ \E t \in cache.timers :
       /\ t.due <= cache.time
       /\ cache' = [cache EXCEPT
                      !.timers = @ \ {t},
                      !.entries[t.key] = NotCached,
                      !.deleted = IF cache.entries[t.key].present
                                  THEN Append(@, [map |-> cache.entries[t.key].map,
                                                  by |-> t.of,
                                                  age |-> cache.time
                                                            - cache.entries[t.key].storedAt])
                                  ELSE @]
  /\ UNCHANGED <<graphVars, admin, stream, push, sync, pinned>>

NextCache ==
  \/ TimePasses
  \/ CallGetPlaceholders
  \/ PlaceholderConfigurationsSettles
  \/ EvictionTimerRuns

SpecCache == InitCache /\ [][NextCache]_vars

-----------------------------------------------------------------------------
(* Properties of the placeholder cache *)

Hits == { i \in 1..Len(cache.served) : cache.served[i].hit }

\* A hit issues no GraphQL call: there are as many GraphQL calls as calls of
\* getPlaceholders that found nothing cached.
HitsIssueNoCall == cache.graphQLCalls = cache.started - Cardinality(Hits)

\* C28 as stated: every entry is deleted no later than CACHE_DURATION after
\* it was stored, whatever the order of requests and timers, so no call is
\* served a cached map older than that; a hit issues no GraphQL call.
C28_NoEntryOlderThanDuration ==
  /\ \A key \in CacheKeys :
       cache.entries[key].present =>
         cache.time - cache.entries[key].storedAt <= CACHE_DURATION
  /\ \A i \in Hits : cache.served[i].age <= CACHE_DURATION
  /\ HitsIssueNoCall

\* C28, amended: every entry has a timer for its key that is due no later
\* than CACHE_DURATION after the entry was stored, and is deleted when the
\* first such timer runs, which is at its due time or later; a call is
\* served a cached map older than CACHE_DURATION only while such a timer is
\* overdue; a hit issues no GraphQL call.
C28_EntryHasTimerDueWithinDuration ==
  /\ \A key \in CacheKeys :
       cache.entries[key].present =>
         \E t \in cache.timers :
           /\ t.key = key
           /\ t.due <= cache.entries[key].storedAt + CACHE_DURATION
  /\ \A i \in Hits : cache.served[i].age > CACHE_DURATION => cache.served[i].overdue
  /\ \A i \in 1..Len(cache.deleted) : cache.deleted[i].by <= cache.deleted[i].map
  /\ HitsIssueNoCall

\* Two calls for one key found nothing cached; the map of the second was
\* stored after that of the first, was served from the cache to a third call
\* and was deleted by the timer of the first.
C28_Witness ==
  /\ cache.stored = 2
  /\ cache.graphQLCalls = 2
  /\ \E i \in Hits : cache.served[i].map = 2
  /\ \E i \in 1..Len(cache.deleted) :
       /\ cache.deleted[i].map = 2
       /\ cache.deleted[i].by = 1
       /\ cache.deleted[i].age < CACHE_DURATION

-----------------------------------------------------------------------------
(* The CMS sync page of the admin: _CmsSync.svelte.  The page has four push
   buttons, two for all types or all styles and two for the type or style
   chosen in a dropdown; a push opens an EventSource on the streaming route
   and the page follows the messages of that stream.  sync holds the state
   of the component, every EventSource it has created, and, for the
   properties, the commands whose completion handler has not run yet. *)

MaxCommands == 3
MaxLogs == 2

BulkCommands == {"push-types", "push-styles"}
IndividualCommands == {"push-type", "push-style"}
TypeNames == {"", "Hero"}
StyleNames == {"", "Dark"}

pushSingleTypeDisabled(s) ==
  s.selectedType = "" \/ s.pushTypesDisabled \/ s.pushStylesDisabled

pushSingleStyleDisabled(s) ==
  s.selectedStyle = "" \/ s.pushTypesDisabled \/ s.pushStylesDisabled

LogEntry(message, level) == [message |-> message, level |-> level]

appendLog(s, message, level) ==
  [s EXCEPT !.logs = Append(@, LogEntry(message, level))]

startTimer(s) == [s EXCEPT !.timerInterval = TRUE]

stopTimer(s) == [s EXCEPT !.timerInterval = FALSE]

disableNoButtons(s) == s

disableAllButtons(s) ==
  [s EXCEPT !.pushTypesDisabled = TRUE, !.pushStylesDisabled = TRUE]

enableAllButtons(s) ==
  [s EXCEPT !.pushTypesDisabled = FALSE, !.pushStylesDisabled = FALSE]

\* eventSource.close() on the EventSource the variable refers to, if any.
CloseEventSource(s) ==
  IF s.eventSource # 0
    THEN [s EXCEPT !.sources[s.eventSource].readyState = "CLOSED"]
    ELSE s

\* new EventSource(url), assigned to the variable.
NewEventSource(s, command) ==
  [s EXCEPT !.sources = Append(@, [command |-> command, readyState |-> "OPEN"]),
            !.eventSource = Len(s.sources) + 1,
            !.inFlight = @ \cup {Len(s.sources) + 1}]

\* The part the two execute functions share from the first log line on.
OpenStream(s, command) ==
  NewEventSource(
    CloseEventSource(startTimer([s EXCEPT !.logs = <<LogEntry(command, "info")>>])),
    command)

executeCommand(s, command) ==
  OpenStream([disableAllButtons(s) EXCEPT !.loading[command] = TRUE], command)

executeIndividualCommand(s, command) ==
  OpenStream([disableAllButtons(s) EXCEPT !.loading[command] = TRUE], command)

\* The part the two completion handlers share from the completion log on.
Completed(s, success, message) ==
  LET level == IF success THEN "success" ELSE "error"
      logged == appendLog(s, "Command completed", level)
      told == IF message # "" THEN appendLog(logged, message, level) ELSE logged
      closed == CloseEventSource(enableAllButtons(told))
  IN  [closed EXCEPT !.eventSource = 0]

StatusOf(success) == IF success THEN "Success" ELSE "Failed"

handleComplete(s, command, success, message) ==
  LET stopped == stopTimer(s)
      updated == IF command = "push-types"
                   THEN [stopped EXCEPT !.typesStatus = StatusOf(success),
                                        !.loading["push-types"] = FALSE]
                   ELSE [stopped EXCEPT !.stylesStatus = StatusOf(success),
                                        !.loading["push-styles"] = FALSE]
  IN  Completed(updated, success, message)

handleIndividualComplete(s, type, success, message) ==
  LET stopped == stopTimer(s)
      updated == IF type = "type"
                   THEN [stopped EXCEPT !.typesStatus = StatusOf(success),
                                        !.loading["push-type"] = FALSE]
                   ELSE [stopped EXCEPT !.stylesStatus = StatusOf(success),
                                        !.loading["push-style"] = FALSE]
  IN  Completed(updated, success, message)

TypeOf(command) == IF command = "push-type" THEN "type" ELSE "style"

\* The completion handler that the listeners of EventSource src call: the
\* listeners are closures over the command the EventSource was created for.
HandlerOf(s, src, success, message) ==
  LET command == s.sources[src].command
      handled == IF command \in BulkCommands
                   THEN handleComplete(s, command, success, message)
                   ELSE handleIndividualComplete(s, TypeOf(command), success, message)
  IN  [handled EXCEPT !.inFlight = @ \ {src},
                      !.last = [step |-> "completed", source |-> src]]

Other(s) == [s EXCEPT !.last = [step |-> "other", source |-> 0]]

OpenSources == { src \in 1..Len(sync.sources) : sync.sources[src].readyState = "OPEN" }

InitSync ==
  /\ GraphUnused
  /\ admin = Unused
  /\ stream = Unused
  /\ push = Unused
  /\ cache = Unused
  /\ pinned = Unused
  /\ sync = [eventSource |-> 0,
             sources |-> <<>>,
             timerInterval |-> FALSE,
             selectedType |-> "",
             selectedStyle |-> "",
             pushTypesDisabled |-> FALSE,
             pushStylesDisabled |-> FALSE,
             loading |-> [c \in BulkCommands \cup IndividualCommands |-> FALSE],
             logs |-> <<LogEntry("Ready to execute commands", "info")>>,
             typesStatus |-> "",
             stylesStatus |-> "",
             inFlight |-> {},
             last |-> [step |-> "other", source |-> 0]]

\* A click on Push All Types or Push All Styles; a disabled button gives no
\* click.
ClickPushAll ==
  \E command \in BulkCommands :
    /\ Len(sync.sources) < MaxCommands
    /\ ~(IF command = "push-types" THEN sync.pushTypesDisabled
                                   ELSE sync.pushStylesDisabled)
    /\ sync' = [executeCommand(sync, command)
                  EXCEPT !.last = [step |-> "started", source |-> Len(sync.sources) + 1]]
    /\ UNCHANGED <<graphVars, admin, stream, push, cache, pinned>>

\* A click on one of the two Push buttons beside the dropdowns:
\* pushIndividual.
ClickPushIndividual ==
  \E type \in {"type", "style"} :
    LET name == IF type = "type" THEN sync.selectedType ELSE sync.selectedStyle
        command == IF type = "type" THEN "push-type" ELSE "push-style"
    IN  /\ Len(sync.sources) < MaxCommands
        /\ ~(IF type = "type" THEN pushSingleTypeDisabled(sync)
                               ELSE pushSingleStyleDisabled(sync))
        /\ sync' = IF name = ""
                     THEN Other(sync)
                     ELSE [executeIndividualCommand(sync, command)
                             EXCEPT !.last = [step |-> "started",
                                              source |-> Len(sync.sources) + 1]]
        /\ UNCHANGED <<graphVars, admin, stream, push, cache, pinned>>

\* The user picks another entry of a dropdown; the dropdowns are never
\* disabled.
SelectionChanges ==
  /\ \/ \E name \in TypeNames :
          /\ name # sync.selectedType
          /\ sync' = Other([sync EXCEPT !.selectedType = name])
     \/ \E name \in StyleNames :
          /\ name # sync.selectedStyle
          /\ sync' = Other([sync EXCEPT !.selectedStyle = name])
  /\ UNCHANGED <<graphVars, admin, stream, push, cache, pinned>>

\* onmessage with a message of type 'log'.  An EventSource that was closed
\* dispatches nothing.
LogMessageArrives ==
  \E src \in OpenSources, level \in {"info", "warning"} :
    /\ Len(sync.logs) < MaxLogs
    /\ sync' = Other(appendLog(sync, "pushed", level))
    /\ UNCHANGED <<graphVars, admin, stream, push, cache, pinned>>

\* onmessage with a message of type 'error'.
ErrorMessageArrives ==
  \E src \in OpenSources :
    /\ Len(sync.logs) < MaxLogs
    /\ sync' = Other(appendLog(sync, "failed", "error"))
    /\ UNCHANGED <<graphVars, admin, stream, push, cache, pinned>>

\* onmessage with a message of type 'complete'.
CompleteMessageArrives ==
  \E src \in OpenSources, success \in BOOLEAN, message \in {"", "done"} :
    /\ sync' = HandlerOf(sync, src, success, message)
    /\ UNCHANGED <<graphVars, admin, stream, push, cache, pinned>>

\* onerror: the connection failed or the server ended the stream.  The
\* handler has set the variable to null, so the close that follows it in
\* the listener acts on nothing.
ConnectionFails ==
  \E src \in OpenSources :
    /\ sync' = CloseEventSource(HandlerOf(sync, src, FALSE, "Connection error occurred"))
    /\ UNCHANGED <<graphVars, admin, stream, push, cache, pinned>>

NextSync ==
  \/ ClickPushAll
  \/ ClickPushIndividual
  \/ SelectionChanges
  \/ LogMessageArrives
  \/ ErrorMessageArrives
  \/ CompleteMessageArrives
  \/ ConnectionFails

SpecSync == InitSync /\ [][NextSync]_vars

-----------------------------------------------------------------------------
(* Properties of the CMS sync page *)

AllFourDisabled ==
  /\ sync.pushTypesDisabled
  /\ sync.pushStylesDisabled
  /\ pushSingleTypeDisabled(sync)
  /\ pushSingleStyleDisabled(sync)

\* C29: at most one push command is in flight; while a command has started
\* and its completion handler has not run, all four push buttons are
\* disabled and at most one EventSource is open; when the completion handler
\* has run, on a 'complete' message or a connection error, the disabling of
\* the buttons is lifted (a Push button beside a dropdown is enabled exactly
\* when its dropdown has a selection), the loading flag of the command is
\* cleared, the EventSource of the command is closed and the variable is
\* null.
C29_OneCommandInFlight ==
  /\ Cardinality(sync.inFlight) <= 1
  /\ Cardinality(OpenSources) <= 1
  /\ sync.inFlight # {} => AllFourDisabled
  /\ sync.last.step = "completed" =>
       /\ ~sync.pushTypesDisabled
       /\ ~sync.pushStylesDisabled
       /\ pushSingleTypeDisabled(sync) <=> sync.selectedType = ""
       /\ pushSingleStyleDisabled(sync) <=> sync.selectedStyle = ""
       /\ ~sync.loading[sync.sources[sync.last.source].command]
       /\ sync.sources[sync.last.source].readyState = "CLOSED"
       /\ sync.eventSource = 0
       /\ sync.inFlight = {}

\* A bulk command and an individual command have both run to their
\* completion handlers, one by a 'complete' message and one by a connection
\* error, and a third command is in flight.
C29_Witness ==
  /\ Len(sync.sources) = 3
  /\ sync.sources[1].command \in BulkCommands
  /\ sync.sources[2].command \in IndividualCommands
  /\ sync.sources[1].readyState = "CLOSED"
  /\ sync.sources[2].readyState = "CLOSED"
  /\ sync.typesStatus = "Success"
  /\ sync.stylesStatus = "Failed"
  /\ sync.inFlight = {3}

-----------------------------------------------------------------------------
(* The pinned-results page of the admin.  A click on a collection calls
   selectCollection, which selects the collection, empties the list and
   loads the items of the collection from the pinned-items route; the form
   below adds an item to the selected collection and loads the items again.
   Nothing disables the collections while a load is in flight.  pinned holds
   the state of the component, the items the server holds for every
   collection, and every load and every POST the component has started. *)

MaxLoads == 3
MaxAdds == 1

CollectionIds == {"A", "B"}
NoSelection == ""

Item(collection, id) == [collection |-> collection, id |-> id]

\* The part of selectCollection before its first await: lines 191-197.
\* awaited says that handleAddPinnedItem waits for this call.
selectCollectionStarts(p, collection, awaited) ==
  [p EXCEPT !.selectedCollection = collection,
            !.selectedCollectionId = collection,
            !.loadingItems = TRUE,
            !.pinnedItems = <<>>,
            !.loads = Append(@, [collection |-> collection,
                                 state |-> "pending",
                                 outcome |-> "none",
                                 awaited |-> awaited])]

\* The rest of selectCollection, from the answer of load i on: lines
\* 198-209.  result is the parsed body, or the failure of fetch or json().
selectCollectionResumes(p, i, result) ==
  LET assigned == IF result.outcome = "json" /\ result.success
                    THEN [p EXCEPT !.pinnedItems = result.data]
                    ELSE p
      finished == [assigned EXCEPT !.loadingItems = FALSE,
                                   !.loads[i].state = "done",
                                   !.loads[i].outcome =
                                     IF result.outcome = "json" /\ result.success
                                       THEN "items"
                                       ELSE IF result.outcome = "json"
                                              THEN "refused" ELSE "threw"]
  IN  IF p.loads[i].awaited
        THEN [finished EXCEPT !.addingItem = FALSE]
        ELSE finished

\* What the GET of the pinned-items route can come to for a collection.
ItemsResults(p, collection) ==
  { [outcome |-> "json", success |-> TRUE, data |-> p.server[collection]],
    [outcome |-> "json", success |-> FALSE, data |-> <<>>],
    [outcome |-> "throws", success |-> FALSE, data |-> <<>>] }

PendingLoads(p) == { i \in 1..Len(p.loads) : p.loads[i].state = "pending" }

InitPinned ==
  /\ GraphUnused
  /\ admin = Unused
  /\ stream = Unused
  /\ push = Unused
  /\ cache = Unused
  /\ sync = Unused
  /\ pinned = [selectedCollection |-> NoSelection,
               selectedCollectionId |-> NoSelection,
               pinnedItems |-> <<>>,
               loadingItems |-> FALSE,
               addingItem |-> FALSE,
               server |-> [c \in CollectionIds |-> <<Item(c, 1)>>],
               loads |-> <<>>,
               adds |-> <<>>]

\* A click on a collection of the list.
ClickCollection ==
  \E collection \in CollectionIds :
    /\ Len(pinned.loads) < MaxLoads
    /\ pinned' = selectCollectionStarts(pinned, collection, FALSE)
    /\ UNCHANGED <<graphVars, admin, stream, push, cache, sync>>

\* The answer to any of the loads in flight arrives and selectCollection
\* goes on after its await.
ItemsLoadSettles ==
  \E i \in PendingLoads(pinned) :
    \E result \in ItemsResults(pinned, pinned.loads[i].collection) :
      /\ pinned' = selectCollectionResumes(pinned, i, result)
      /\ UNCHANGED <<graphVars, admin, stream, push, cache, sync>>

\* The form is submitted with phrases and a target: handleAddPinnedItem up
\* to its first await.  The submit button is disabled while addingItem.
SubmitAddPinnedItem ==
  /\ Len(pinned.adds) < MaxAdds
  /\ ~pinned.addingItem
  /\ pinned.selectedCollectionId # NoSelection
  /\ pinned' = [pinned EXCEPT !.addingItem = TRUE,
                              !.adds = Append(@, [collection |-> pinned.selectedCollectionId,
                                                  state |-> "pending"])]
  /\ UNCHANGED <<graphVars, admin, stream, push, cache, sync>>

\* The POST is answered: handleAddPinnedItem from line 278 on.  On success
\* the server has the new item, and the items of the collection selected by
\* now are loaded again.
AddPinnedItemSettles ==
  \E a \in 1..Len(pinned.adds), ok \in BOOLEAN :
    LET collection == pinned.adds[a].collection
        answered == [pinned EXCEPT !.adds[a].state = "done"]
        added == [answered EXCEPT !.server[collection] =
                                    Append(@, Item(collection, Len(@) + 1))]
    IN  /\ pinned.adds[a].state = "pending"
        /\ ok => Len(pinned.loads) < MaxLoads
        /\ pinned' = IF ok
                       THEN IF added.selectedCollection # NoSelection
                              THEN selectCollectionStarts(added, added.selectedCollection, TRUE)
                              ELSE [added EXCEPT !.addingItem = FALSE]
                       ELSE [answered EXCEPT !.addingItem = FALSE]
        /\ UNCHANGED <<graphVars, admin, stream, push, cache, sync>>

NextPinned ==
  \/ ClickCollection
  \/ ItemsLoadSettles
  \/ SubmitAddPinnedItem
  \/ AddPinnedItemSettles

SpecPinned == InitPinned /\ [][NextPinned]_vars

-----------------------------------------------------------------------------
(* Properties of the pinned-results page *)

AllLoadsAnswered ==
  /\ pinned.loads # <<>>
  /\ \A i \in 1..Len(pinned.loads) :
       pinned.loads[i].state = "done" /\ pinned.loads[i].outcome = "items"
  /\ \A a \in 1..Len(pinned.adds) : pinned.adds[a].state = "done"

\* C30: once every load of items has been answered with the items of its
\* collection, pinnedItems holds the items of the collection that is
\* selected, whatever the order in which the answers to successive calls of
\* selectCollection arrived.
C30_PinnedItemsOfSelectedCollection ==
  AllLoadsAnswered =>
    pinned.pinnedItems = pinned.server[pinned.selectedCollection]

====
